---- MODULE Spec2Model ----
(***************************************************************************)
(* API-key governance of skeduleslive-streamlit: the in-process key        *)
(* manager (security/api_key_manager.py) and the request gate              *)
(* (security/api_key_middleware.py).                                       *)
(*                                                                         *)
(* Python values are modelled as follows.  A raw credential, a scope and a *)
(* path are strings; Python's None in a string position is the string None *)
(* below.  An optional argument of another type is <<>> for None and <<v>> *)
(* for the value v.  A dict is a function; a list used only for membership *)
(* (scopes) is the set of its elements; exclude_paths is a sequence.       *)
(* time.time() is the variable now, read once per call.                    *)
(***************************************************************************)
EXTENDS Integers, Sequences, FiniteSets, TLC

VARIABLES
    api_keys,         \* APIKeyManager._api_keys: key_hash -> key_info
    request_tracker,  \* APIKeyManager._request_tracker: key_hash -> tracker
    now,              \* the value time.time() returns
    exclude_paths,    \* APIKeyMiddleware.exclude_paths
    req,              \* the requests inside APIKeyMiddleware.dispatch
    ret,              \* the last direct call of a manager method and its result
    thr,              \* threads inside check_rate_limit or update_key, statement
                      \* by statement, each with its local variables
    admitted,         \* calls of check_rate_limit that returned True (history, for
                      \* the claims): per key_hash since its tracker was created
                      \* or reset, or per <<key_hash, time>> in SpecBurst
    heap              \* the dict objects callers hold and pass as metadata:
                      \* object -> dict (a record given one refers to it)

vars == <<api_keys, request_tracker, now, exclude_paths, req, ret, thr, admitted, heap>>

----------------------------------------------------------------------------
\* Bounds of the model

MaxTicks == 2         \* instants the clock can show after the first one
MaxRateLimit == 2     \* largest rate_limit the callers ask for
MaxRequests == 1      \* requests inside dispatch at the same time
MaxThreads == 2       \* threads inside check_rate_limit at the same time

----------------------------------------------------------------------------
\* Program constants

RateLimitWindow == 3600
DefaultRateLimit == 1000
DefaultExpiresInDays == 90
DefaultKeyExpiryDays == 365
SecondsPerDay == 24 * 3600
HTTP_401_UNAUTHORIZED == 401
HTTP_429_TOO_MANY_REQUESTS == 429

None == "<None>"
DefaultKey == "test-mcp-api-key-local-dev"
DefaultMetadata == [name |-> "Default Development API Key", created_by |-> "system"]
DefaultExcludePaths == <<"/docs", "/redoc", "/openapi.json", "/health">>

\* The reasons the manager returns (the spec's names for them)
\* (mutant) a missing key is reported as an unknown one
MissingCredential_as_unknown == "Invalid API key"
MissingCredential == "API key is required"
\* (mutant) an unknown key is reported as a missing one
UnknownCredential_as_missing == "API key is required"
UnknownCredential == "Invalid API key"
Expired == "API key has expired"
ScopeDenied(scope) == "API key does not have permission for " \o scope
RateLimitExceeded == "API rate limit exceeded"

----------------------------------------------------------------------------
\* Inputs

\* uuid4 is random: any value of its range may come back
GeneratedKeys == {"sk-1"}
\* raw credentials a caller may present: an issued one, an unknown one, the empty one
RawKeys == GeneratedKeys \cup {"sk-unknown", ""}
\* request.headers.get(self.header_name)
HeaderValues == RawKeys \cup {None}
ScopeNames == {"read", "write"}
ScopeArgs == ScopeNames \cup {None, ""}
\* the clock alternates a step of one window and a step of one second
Time(i) == ((i + 1) \div 2) * RateLimitWindow + (i \div 2)
TimePoints == {Time(i) : i \in 0..MaxTicks}
Paths == {"/health/live", "/api/jobs"}
ExcludeArgs == {<<>>, << <<>> >>, << <<"/api">> >>}
HandlerStatus == {200, 404}

----------------------------------------------------------------------------
\* Helpers

StartsWith(s, prefix) ==
    Len(prefix) <= Len(s) /\ SubSeq(s, 1, Len(prefix)) = prefix

\* dict with one entry set (d[k] = v)
Put(d, k, v) == [x \in DOMAIN d \cup {k} |-> IF x = k THEN v ELSE d[x]]
\* dict with one entry deleted (del d[k])
Del(d, k) == [x \in DOMAIN d \ {k} |-> d[x]]
\* (mutant) the new dict replaces the old one
Merge_replace(d, e) == e
\* dict.update
Merge(d, e) == [x \in DOMAIN d \cup DOMAIN e |-> IF x \in DOMAIN e THEN e[x] ELSE d[x]]
EmptyDict == <<>>

\* sha256(...).hexdigest(): deterministic, and injective on the model's inputs
_hash_key(api_key) == "sha256:" \o api_key

----------------------------------------------------------------------------
\* APIKeyManager

\* (mutant) `api_key is None`: the empty string goes on to the lookup
is_missing_none_only(api_key) == api_key = None

\* `not api_key`
is_missing(api_key) == api_key = None \/ api_key = ""

\* (mutant) expires_at <= time.time(): expired at the instant of expiry already
has_expired_at_expiry(key_info, t) == key_info.expires_at <= t

\* key_info["expires_at"] < time.time()
has_expired(key_info, t) == key_info.expires_at < t

\* (mutant) the wildcard is not honoured
scope_denied_no_wildcard(key_info, scope) ==
    /\ scope # None /\ scope # ""
    /\ scope \notin key_info.scopes

\* scope and scope not in key_info["scopes"] and "*" not in key_info["scopes"]
scope_denied(key_info, scope) ==
    /\ scope # None /\ scope # ""
    /\ scope \notin key_info.scopes
    /\ "*" \notin key_info.scopes

Result(ok, msg) == [ok |-> ok, msg |-> msg, raised |-> None]
\* a method returned value
Returned(value) == [ok |-> TRUE, msg |-> None, raised |-> None, value |-> value]
Raised(exc) == [ok |-> FALSE, msg |-> None, raised |-> exc]

\* validate_key(api_key, scope) with the store keys at time t: (valid, error_message)
validate_key(keys, t, api_key, scope) ==
    IF is_missing(api_key) THEN Result(FALSE, MissingCredential)
    ELSE LET key_hash == _hash_key(api_key) IN
         IF key_hash \notin DOMAIN keys THEN Result(FALSE, UnknownCredential)
         ELSE LET key_info == keys[key_hash] IN
              IF has_expired(key_info, t) THEN Result(FALSE, Expired)
              ELSE IF scope_denied(key_info, scope) THEN Result(FALSE, ScopeDenied(scope))
              ELSE Result(TRUE, None)

NewTracker(t) == [requests |-> 0, window_start |-> t]

\* (mutant) a window is never over
window_elapsed_never(tracker, t) == FALSE

\* (mutant) the window is over at its last instant already
window_elapsed_at_boundary(tracker, t) == t - tracker.window_start >= RateLimitWindow

\* current_time - tracker["window_start"] > self._rate_limit_window
window_elapsed(tracker, t) == t - tracker.window_start > RateLimitWindow

\* (mutant) tracker["requests"] > rate_limit: one call too many is admitted
limit_reached_off_by_one(tracker, rate_limit) == tracker.requests > rate_limit

\* tracker["requests"] >= rate_limit
limit_reached(tracker, rate_limit) == tracker.requests >= rate_limit

\* (mutant) the admitted call is not counted
increment_forgotten(tracker) == tracker

\* tracker["requests"] += 1
increment(tracker) == [tracker EXCEPT !.requests = @ + 1]

\* (mutant) a denied call starts the window anew
check_rate_limit_denial_restarts(keys, trk, t, api_key) ==
    IF api_key = None
    THEN [res |-> Raised("AttributeError"), tracker |-> trk]
    ELSE
    LET key_hash == _hash_key(api_key)
        trk1 == IF key_hash \notin DOMAIN trk THEN Put(trk, key_hash, NewTracker(t)) ELSE trk
    IN  IF key_hash \notin DOMAIN keys
        THEN [res |-> Raised("KeyError"), tracker |-> trk1]
        ELSE
        LET key_info == keys[key_hash]
            tracker == IF window_elapsed(trk1[key_hash], t) THEN NewTracker(t) ELSE trk1[key_hash]
            rate_limit == key_info.rate_limit
        IN  IF limit_reached(tracker, rate_limit)
            THEN [res |-> Result(FALSE, RateLimitExceeded),
                  tracker |-> Put(trk1, key_hash, [tracker EXCEPT !.window_start = t])]
            ELSE [res |-> Result(TRUE, None),
                  tracker |-> Put(trk1, key_hash, increment(tracker))]

\* check_rate_limit(api_key) with the store keys and the trackers trk at time t:
\* the result and the trackers it leaves
check_rate_limit(keys, trk, t, api_key) ==
    IF api_key = None
    THEN [res |-> Raised("AttributeError"), tracker |-> trk]
    ELSE
    LET key_hash == _hash_key(api_key)
        trk1 == IF key_hash \notin DOMAIN trk THEN Put(trk, key_hash, NewTracker(t)) ELSE trk
    IN  IF key_hash \notin DOMAIN keys
        THEN [res |-> Raised("KeyError"), tracker |-> trk1]
        ELSE
        LET key_info == keys[key_hash]
            tracker == IF window_elapsed(trk1[key_hash], t) THEN NewTracker(t) ELSE trk1[key_hash]
            rate_limit == key_info.rate_limit
        IN  IF limit_reached(tracker, rate_limit)
            THEN [res |-> Result(FALSE, RateLimitExceeded),
                  tracker |-> Put(trk1, key_hash, tracker)]
            ELSE [res |-> Result(TRUE, None),
                  tracker |-> Put(trk1, key_hash, increment(tracker))]

\* (mutant) without scopes the key is given none
generated_info_no_scopes(t, scopes, rate_limit, expires_in_days, metadata) ==
    [scopes |-> IF scopes = <<>> THEN {} ELSE scopes[1],
     rate_limit |-> IF rate_limit = <<>> THEN DefaultRateLimit ELSE rate_limit[1],
     created_at |-> t,
     expires_at |-> t + expires_in_days * SecondsPerDay,
     metadata |-> IF metadata = <<>> THEN EmptyDict ELSE metadata[1]]

\* the record generate_key stores
generated_info(t, scopes, rate_limit, expires_in_days, metadata) ==
    [scopes |-> IF scopes = <<>> THEN {"*"} ELSE scopes[1],
     rate_limit |-> IF rate_limit = <<>> THEN DefaultRateLimit ELSE rate_limit[1],
     created_at |-> t,
     expires_at |-> t + expires_in_days * SecondsPerDay,
     metadata |-> IF metadata = <<>> THEN EmptyDict ELSE metadata[1]]

\* generate_key(...) when uuid4 returns the text of api_key: the store it leaves
generate_key(keys, t, api_key, scopes, rate_limit, expires_in_days, metadata) ==
    Put(keys, _hash_key(api_key),
        generated_info(t, scopes, rate_limit, expires_in_days, metadata))

\* (mutant) the tracker of a revoked key is left behind
revoke_key_keeps_tracker(keys, trk, api_key) ==
    LET key_hash == _hash_key(api_key) IN
    IF key_hash \in DOMAIN keys
    THEN [res |-> TRUE, keys |-> Del(keys, key_hash), tracker |-> trk]
    ELSE [res |-> FALSE, keys |-> keys, tracker |-> trk]

\* (mutant) the record of a revoked key is left in the store
revoke_key_keeps_record(keys, trk, api_key) ==
    LET key_hash == _hash_key(api_key) IN
    IF key_hash \in DOMAIN keys
    THEN [res |-> TRUE, keys |-> keys, tracker |-> Del(trk, key_hash)]
    ELSE [res |-> FALSE, keys |-> keys, tracker |-> trk]

\* revoke_key(api_key): the result, the store and the trackers it leaves
revoke_key(keys, trk, api_key) ==
    LET key_hash == _hash_key(api_key) IN
    IF key_hash \in DOMAIN keys
    THEN [res |-> TRUE, keys |-> Del(keys, key_hash), tracker |-> Del(trk, key_hash)]
    ELSE [res |-> FALSE, keys |-> keys, tracker |-> trk]

\* (mutant) an update restarts the record's age
updated_info_touches_created_at(key_info, t, scopes, rate_limit, expires_in_days, metadata) ==
    [scopes |-> IF scopes # <<>> THEN scopes[1] ELSE key_info.scopes,
     rate_limit |-> IF rate_limit # <<>> THEN rate_limit[1] ELSE key_info.rate_limit,
     created_at |-> t,
     expires_at |-> IF expires_in_days # <<>>
                    THEN t + expires_in_days[1] * SecondsPerDay
                    ELSE key_info.expires_at,
     metadata |-> IF metadata # <<>> THEN Merge(key_info.metadata, metadata[1])
                  ELSE key_info.metadata]

\* (mutant) update_key extends the expiry the record had
updated_info_additive(key_info, t, scopes, rate_limit, expires_in_days, metadata) ==
    [scopes |-> IF scopes # <<>> THEN scopes[1] ELSE key_info.scopes,
     rate_limit |-> IF rate_limit # <<>> THEN rate_limit[1] ELSE key_info.rate_limit,
     created_at |-> key_info.created_at,
     expires_at |-> IF expires_in_days # <<>>
                    THEN key_info.expires_at + expires_in_days[1] * SecondsPerDay
                    ELSE key_info.expires_at,
     metadata |-> IF metadata # <<>> THEN Merge(key_info.metadata, metadata[1])
                  ELSE key_info.metadata]

\* the record update_key leaves
updated_info(key_info, t, scopes, rate_limit, expires_in_days, metadata) ==
    [scopes |-> IF scopes # <<>> THEN scopes[1] ELSE key_info.scopes,
     rate_limit |-> IF rate_limit # <<>> THEN rate_limit[1] ELSE key_info.rate_limit,
     created_at |-> key_info.created_at,
     expires_at |-> IF expires_in_days # <<>>
                    THEN t + expires_in_days[1] * SecondsPerDay
                    ELSE key_info.expires_at,
     metadata |-> IF metadata # <<>> THEN Merge(key_info.metadata, metadata[1])
                  ELSE key_info.metadata]

\* update_key(api_key, ...): the result and the store it leaves
update_key(keys, t, api_key, scopes, rate_limit, expires_in_days, metadata) ==
    LET key_hash == _hash_key(api_key) IN
    IF key_hash \notin DOMAIN keys
    THEN [res |-> FALSE, keys |-> keys]
    ELSE [res |-> TRUE,
          keys |-> Put(keys, key_hash,
                       updated_info(keys[key_hash], t, scopes, rate_limit,
                                    expires_in_days, metadata))]

\* datetime.fromtimestamp(t).isoformat(): the instant as text
isoformat(t) == "iso:" \o ToString(t)

\* the usage entry of a snapshot
usage(tracker) ==
    [requests |-> tracker.requests, window_start |-> isoformat(tracker.window_start)]

\* key_info.copy() with the timestamps converted to ISO format
snapshot(key_info) ==
    [scopes |-> key_info.scopes,
     rate_limit |-> key_info.rate_limit,
     created_at |-> isoformat(key_info.created_at),
     expires_at |-> isoformat(key_info.expires_at),
     metadata |-> key_info.metadata]

\* (mutant) the identifier is the whole hash
key_id_whole_hash(key_hash) == key_hash

\* key_hash[:8]
key_id(key_hash) == SubSeq(key_hash, 1, 8)

\* get_key_info(api_key): <<>> for None, <<info>> for the dict it returns
get_key_info(keys, trk, api_key) ==
    LET key_hash == _hash_key(api_key) IN
    IF key_hash \in DOMAIN keys
    THEN << IF key_hash \in DOMAIN trk
            THEN Merge(snapshot(keys[key_hash]), [usage |-> usage(trk[key_hash])])
            ELSE snapshot(keys[key_hash]) >>
    ELSE <<>>

\* list_keys(include_usage): the dicts of the list it returns, without their order
list_keys(keys, trk, include_usage) ==
    {Merge(IF include_usage /\ key_hash \in DOMAIN trk
           THEN Merge(snapshot(keys[key_hash]), [usage |-> usage(trk[key_hash])])
           ELSE snapshot(keys[key_hash]),
           [key_id |-> key_id(key_hash)]) : key_hash \in DOMAIN keys}

\* (mutant) the bootstrap record is stored whether or not one is there
_load_default_api_key_always(keys, t) ==
    Put(keys, _hash_key(DefaultKey),
        [scopes |-> {"*"},
         rate_limit |-> DefaultRateLimit,
         created_at |-> t,
         expires_at |-> t + DefaultKeyExpiryDays * SecondsPerDay,
         metadata |-> DefaultMetadata])

\* _load_default_api_key on the store keys at time t
_load_default_api_key(keys, t) ==
    IF _hash_key(DefaultKey) \notin DOMAIN keys
    THEN Put(keys, _hash_key(DefaultKey),
             [scopes |-> {"*"},
              rate_limit |-> DefaultRateLimit,
              created_at |-> t,
              expires_at |-> t + DefaultKeyExpiryDays * SecondsPerDay,
              metadata |-> DefaultMetadata])
    ELSE keys

----------------------------------------------------------------------------
\* APIKeyMiddleware

\* self.exclude_paths = exclude_paths or [...]
init_exclude_paths(arg) ==
    IF arg = <<>> \/ arg[1] = <<>> THEN DefaultExcludePaths ELSE arg[1]

\* (mutant) the path has to equal an entry
is_excluded_exact(path, excl) == \E i \in 1..Len(excl) : path = excl[i]

\* any(request.url.path.startswith(path) for path in self.exclude_paths)
is_excluded(path, excl) == \E i \in 1..Len(excl) : StartsWith(path, excl[i])

JSONResponse(status_code, message) ==
    [status_code |-> status_code, content |-> [success |-> FALSE, message |-> message]]

\* (mutant) a failed validation answers 403
auth_rejection_forbidden(error_message) == JSONResponse(403, error_message)
\* (mutant) a rate-limited request answers like a failed validation
rate_rejection_as_auth(limit_message) == JSONResponse(HTTP_401_UNAUTHORIZED, limit_message)

auth_rejection(error_message) == JSONResponse(HTTP_401_UNAUTHORIZED, error_message)
rate_rejection(limit_message) == JSONResponse(HTTP_429_TOO_MANY_REQUESTS, limit_message)

NoResponse == [status_code |-> 0, content |-> [none |-> TRUE]]

\* (mutant) a validated request goes on without a call of check_rate_limit
dispatch_no_quota(keys, trk, t, excl, path, header) ==
    IF is_excluded(path, excl)
    THEN [go |-> "call_next", response |-> NoResponse, raised |-> None,
          tracker |-> trk, checked |-> FALSE]
    ELSE
    LET v == validate_key(keys, t, header, None) IN
    IF ~v.ok
    THEN [go |-> "respond", response |-> auth_rejection(v.msg), raised |-> None,
          tracker |-> trk, checked |-> TRUE]
    ELSE [go |-> "call_next", response |-> NoResponse, raised |-> None,
          tracker |-> trk, checked |-> TRUE]

\* (mutant) the rate limit is checked before the key is validated
dispatch_rate_first(keys, trk, t, excl, path, header) ==
    IF is_excluded(path, excl)
    THEN [go |-> "call_next", response |-> NoResponse, raised |-> None,
          tracker |-> trk, checked |-> FALSE]
    ELSE
    LET c == check_rate_limit(keys, trk, t, header)
        v == validate_key(keys, t, header, None)
    IN
    IF c.res.raised # None
    THEN [go |-> "raise", response |-> NoResponse, raised |-> c.res.raised,
          tracker |-> c.tracker, checked |-> TRUE]
    ELSE IF ~c.res.ok
    THEN [go |-> "respond", response |-> rate_rejection(c.res.msg), raised |-> None,
          tracker |-> c.tracker, checked |-> TRUE]
    ELSE IF ~v.ok
    THEN [go |-> "respond", response |-> auth_rejection(v.msg), raised |-> None,
          tracker |-> c.tracker, checked |-> TRUE]
    ELSE [go |-> "call_next", response |-> NoResponse, raised |-> None,
          tracker |-> c.tracker, checked |-> TRUE]

\* dispatch up to its await of call_next: what the request does next
\* (go: "call_next" | "respond" | "raise"), the response or the exception, the
\* trackers it leaves, and whether validate_key was called
dispatch(keys, trk, t, excl, path, header) ==
    IF is_excluded(path, excl)
    THEN [go |-> "call_next", response |-> NoResponse, raised |-> None,
          tracker |-> trk, checked |-> FALSE]
    ELSE
    LET v == validate_key(keys, t, header, None) IN
    IF ~v.ok
    THEN [go |-> "respond", response |-> auth_rejection(v.msg), raised |-> None,
          tracker |-> trk, checked |-> TRUE]
    ELSE
    LET c == check_rate_limit(keys, trk, t, header) IN
    IF c.res.raised # None
    THEN [go |-> "raise", response |-> NoResponse, raised |-> c.res.raised,
          tracker |-> c.tracker, checked |-> TRUE]
    ELSE IF ~c.res.ok
    THEN [go |-> "respond", response |-> rate_rejection(c.res.msg), raised |-> None,
          tracker |-> c.tracker, checked |-> TRUE]
    ELSE [go |-> "call_next", response |-> NoResponse, raised |-> None,
          tracker |-> c.tracker, checked |-> TRUE]

\* what the downstream handler answers
HandlerResponse(status) == [status_code |-> status, content |-> [handler |-> TRUE]]

----------------------------------------------------------------------------
\* State machine

Requests == 1..MaxRequests
Threads == 1..MaxThreads

\* the dicts a caller holds, to pass as metadata
MetadataObjects == {"m"}
\* key_info["metadata"] when it is the caller's dict o: the object, not a copy
Ref(o) == [ref |-> o]
IsRef(metadata) == DOMAIN metadata = {"ref"}
\* the dict key_info["metadata"] reads as
metadata_of(key_info, objs) ==
    IF IsRef(key_info.metadata) THEN objs[key_info.metadata.ref] ELSE key_info.metadata

IdleRequest ==
    [pc |-> "idle", path |-> None, header |-> None, response |-> NoResponse,
     raised |-> None, called_next |-> 0, checked |-> FALSE]
IdleThread ==
    [pc |-> "idle", api_key |-> None, own |-> FALSE, requests |-> 0, window_start |-> 0,
     current_time |-> 0, tmp |-> 0]
NoCall == [op |-> "none", api_key |-> None, scope |-> None, res |-> Result(FALSE, None)]
Call(op, api_key, scope, res) ==
    [op |-> op, api_key |-> api_key, scope |-> scope, res |-> res]

\* APIKeyManager.__init__ (the module's singleton)
ManagerInit ==
    /\ now = Time(0)
    /\ api_keys = _load_default_api_key(EmptyDict, Time(0))
    /\ request_tracker = EmptyDict
    /\ ret = NoCall
    /\ thr = [th \in Threads |-> IdleThread]
    /\ admitted = EmptyDict
    /\ heap = [o \in MetadataObjects |-> EmptyDict]

\* ... and add_api_key_middleware(app) with its defaults
Init ==
    /\ ManagerInit
    /\ exclude_paths = init_exclude_paths(<<>>)
    /\ req = [r \in Requests |-> IdleRequest]

\* ... and add_api_key_middleware(app, exclude_paths) with any argument
InitConfigured ==
    /\ ManagerInit
    /\ \E arg \in ExcludeArgs : exclude_paths = init_exclude_paths(arg)
    /\ req = [r \in Requests |-> IdleRequest]

\* time passes
Tick ==
    /\ \E t \in TimePoints : t > now /\ now' = t
    /\ UNCHANGED <<api_keys, request_tracker, exclude_paths, req, ret, thr, admitted, heap>>

\* generate_key in which uuid4 returns the text of api_key: its effect on the manager
DoGenerate(api_key, scopes, rate_limit, expires_in_days, metadata) ==
    /\ api_keys' = generate_key(api_keys, now, api_key, scopes, rate_limit,
                                expires_in_days, metadata)
    /\ UNCHANGED <<request_tracker, now, exclude_paths, req, thr, admitted, heap>>

\* revoke_key: its effect on the manager
DoRevoke(api_key) ==
    /\ api_keys' = revoke_key(api_keys, request_tracker, api_key).keys
    /\ request_tracker' = revoke_key(api_keys, request_tracker, api_key).tracker
    /\ UNCHANGED <<now, exclude_paths, req, thr, admitted, heap>>

\* (mutant) update_key discards the key's tracker
DoUpdate_drops_tracker(api_key, scopes, rate_limit, expires_in_days, metadata) ==
    /\ api_keys' = update_key(api_keys, now, api_key, scopes, rate_limit,
                              expires_in_days, metadata).keys
    /\ request_tracker' = Del(request_tracker, _hash_key(api_key))
    /\ UNCHANGED <<now, exclude_paths, req, thr, admitted, heap>>

\* update_key: its effect on the manager
DoUpdate(api_key, scopes, rate_limit, expires_in_days, metadata) ==
    /\ api_keys' = update_key(api_keys, now, api_key, scopes, rate_limit,
                              expires_in_days, metadata).keys
    /\ UNCHANGED <<request_tracker, now, exclude_paths, req, thr, admitted, heap>>

\* check_rate_limit: its effect on the manager
DoCheckRateLimit(api_key) ==
    /\ request_tracker' = check_rate_limit(api_keys, request_tracker, now, api_key).tracker
    /\ UNCHANGED <<api_keys, now, exclude_paths, req, thr, admitted, heap>>

\* (mutant) validate_key removes the record it finds expired
Validate_purges(api_key, scope) ==
    /\ ret' = Call("validate_key", api_key, scope,
                   validate_key(api_keys, now, api_key, scope))
    /\ api_keys' = IF validate_key(api_keys, now, api_key, scope).msg = Expired
                   THEN Del(api_keys, _hash_key(api_key)) ELSE api_keys
    /\ UNCHANGED <<request_tracker, now, exclude_paths, req, thr, admitted, heap>>

\* (mutant) validate_key starts the key's tracker
Validate_tracks(api_key, scope) ==
    /\ ret' = Call("validate_key", api_key, scope,
                   validate_key(api_keys, now, api_key, scope))
    /\ request_tracker' = Put(request_tracker, _hash_key(api_key), NewTracker(now))
    /\ UNCHANGED <<api_keys, now, exclude_paths, req, thr, admitted, heap>>

\* A caller calls a method of the manager and keeps what it returns
Validate(api_key, scope) ==
    /\ ret' = Call("validate_key", api_key, scope,
                   validate_key(api_keys, now, api_key, scope))
    /\ UNCHANGED <<api_keys, request_tracker, now, exclude_paths, req, thr, admitted, heap>>

CheckRateLimit(api_key) ==
    /\ DoCheckRateLimit(api_key)
    /\ ret' = Call("check_rate_limit", api_key, None,
                   check_rate_limit(api_keys, request_tracker, now, api_key).res)

Generate(api_key, scopes, rate_limit, expires_in_days, metadata) ==
    /\ DoGenerate(api_key, scopes, rate_limit, expires_in_days, metadata)
    /\ ret' = Call("generate_key", api_key, None, Result(TRUE, None))

Revoke(api_key) ==
    /\ DoRevoke(api_key)
    /\ ret' = Call("revoke_key", api_key, None,
                   Result(revoke_key(api_keys, request_tracker, api_key).res, None))

Update(api_key, scopes, rate_limit, expires_in_days, metadata) ==
    /\ DoUpdate(api_key, scopes, rate_limit, expires_in_days, metadata)
    /\ ret' = Call("update_key", api_key, None,
                   Result(update_key(api_keys, now, api_key, scopes, rate_limit,
                                     expires_in_days, metadata).res, None))

\* _load_default_api_key called again on the manager
LoadDefault ==
    /\ api_keys' = _load_default_api_key(api_keys, now)
    /\ ret' = Call("_load_default_api_key", DefaultKey, None, Result(TRUE, None))
    /\ UNCHANGED <<request_tracker, now, exclude_paths, req, thr, admitted, heap>>

GetKeyInfo(api_key) ==
    /\ ret' = Call("get_key_info", api_key, None,
                   Returned(get_key_info(api_keys, request_tracker, api_key)))
    /\ UNCHANGED <<api_keys, request_tracker, now, exclude_paths, req, thr, admitted, heap>>

ListKeys(include_usage) ==
    /\ ret' = Call("list_keys", None, None,
                   Returned(list_keys(api_keys, request_tracker, include_usage)))
    /\ UNCHANGED <<api_keys, request_tracker, now, exclude_paths, req, thr, admitted, heap>>

\* req with request r's record replaced; the record of a request that has left
\* dispatch is kept only until the next one leaves or enters it
Finish(r, record) ==
    [x \in Requests |-> IF x = r THEN record
                        ELSE IF req[x].pc = "done" THEN IdleRequest ELSE req[x]]

\* A request enters dispatch and runs to its await of call_next, or to its response:
\* dispatch awaits nowhere else, so the event loop runs nothing in between
Dispatch(r, path, header) ==
    /\ req[r].pc # "call_next"
    /\ LET d == dispatch(api_keys, request_tracker, now, exclude_paths, path, header) IN
       /\ request_tracker' = d.tracker
       /\ req' = Finish(r, [pc |-> IF d.go = "call_next" THEN "call_next" ELSE "done",
                            path |-> path, header |-> header,
                            response |-> d.response, raised |-> d.raised,
                            called_next |-> IF d.go = "call_next" THEN 1 ELSE 0,
                            checked |-> d.checked])
    /\ UNCHANGED <<api_keys, now, exclude_paths, ret, thr, admitted, heap>>

\* call_next returns the handler's response and dispatch returns it
Return(r, status) ==
    /\ req[r].pc = "call_next"
    /\ req' = Finish(r, [req[r] EXCEPT !.pc = "done", !.response = HandlerResponse(status)])
    /\ UNCHANGED <<api_keys, request_tracker, now, exclude_paths, ret, thr, admitted, heap>>

----------------------------------------------------------------------------
\* The Gate with an administrator issuing and revoking keys beside it

\* uuid4 returns a value no record is stored under
Fresh(api_key) == _hash_key(api_key) \notin DOMAIN api_keys

RateLimits == {<<n>> : n \in 1..MaxRateLimit}
ShortOrDefaultDays == {DefaultExpiresInDays, 0}

GateNext ==
    \/ Tick
    \/ \E k \in GeneratedKeys, l \in RateLimits, d \in ShortOrDefaultDays :
          Fresh(k) /\ DoGenerate(k, <<>>, l, d, <<>>) /\ UNCHANGED ret
    \/ \E k \in GeneratedKeys : DoRevoke(k) /\ UNCHANGED ret
    \/ \E r \in Requests, p \in Paths, h \in HeaderValues : Dispatch(r, p, h)
    \/ \E r \in Requests, st \in HandlerStatus : Return(r, st)

Spec == Init /\ [][GateNext]_vars

----------------------------------------------------------------------------
\* A caller validating credentials while keys are issued, updated, revoked and expire

ValidateKeys == HeaderValues \cup {DefaultKey}
GenScopes == {<<>>, <<{"read"}>>}
UpdScopes == {<<>>, <<{"write"}>>}
UpdDays == {<<>>, <<1>>}

ValidateNext ==
    \/ Tick
    \/ \E k \in ValidateKeys, s \in ScopeArgs : Validate(k, s)
    \/ \E k \in GeneratedKeys, s \in GenScopes, d \in ShortOrDefaultDays :
          Fresh(k) /\ Generate(k, s, <<>>, d, <<>>)
    \/ \E k \in GeneratedKeys, s \in UpdScopes, d \in UpdDays : Update(k, s, <<>>, d, <<>>)
    \/ \E k \in GeneratedKeys : Revoke(k)

SpecValidate == Init /\ [][ValidateNext]_vars

----------------------------------------------------------------------------
\* A caller of check_rate_limit while keys are issued, updated and revoked

RateKeys == GeneratedKeys \cup {"sk-unknown"}
UpdRateLimits == {<<>>} \cup RateLimits

RateNext ==
    \/ Tick
    \/ \E k \in RateKeys : CheckRateLimit(k)
    \/ \E k \in GeneratedKeys, l \in RateLimits : Fresh(k) /\ Generate(k, <<>>, l, DefaultExpiresInDays, <<>>)
    \/ \E k \in GeneratedKeys, l \in UpdRateLimits : Update(k, <<>>, l, <<>>, <<>>)
    \/ \E k \in GeneratedKeys : Revoke(k)

SpecRate == Init /\ [][RateNext]_vars

----------------------------------------------------------------------------
\* A caller of every method of the manager: keys are issued with a scope, a rate
\* limit and a life time, validated, counted and revoked

ManagerKeys == RateKeys \cup {DefaultKey}
ManagerScopes == {None, "write"}

ManagerNext ==
    \/ Tick
    \/ \E k \in ManagerKeys \cup {None}, s \in ManagerScopes : Validate(k, s)
    \/ \E k \in RateKeys : CheckRateLimit(k)
    \/ \E k \in GeneratedKeys, s \in GenScopes, l \in RateLimits, d \in ShortOrDefaultDays :
          Fresh(k) /\ Generate(k, s, l, d, <<>>)
    \/ \E k \in ManagerKeys : Revoke(k)

SpecManager == Init /\ [][ManagerNext]_vars

----------------------------------------------------------------------------
\* Keys issued one after another.  generate_key stores the record under the hash
\* of whatever uuid4 returns, without looking whether a record is there

GenerateNext ==
    \/ Tick
    \/ \E k \in GeneratedKeys, s \in GenScopes, l \in UpdRateLimits, d \in ShortOrDefaultDays :
          Generate(k, s, l, d, <<>>)
    \/ \E k \in GeneratedKeys, s \in ScopeArgs : Validate(k, s)

SpecGenerate == Init /\ [][GenerateNext]_vars

----------------------------------------------------------------------------
\* The bootstrap key: updated, revoked, validated, and the bootstrap repeated

BootstrapNext ==
    \/ Tick
    \/ LoadDefault
    \/ \E s \in UpdScopes, d \in UpdDays : Update(DefaultKey, s, <<>>, d, <<>>)
    \/ Revoke(DefaultKey)
    \/ \E s \in ScopeArgs : Validate(DefaultKey, s)

SpecBootstrap == Init /\ [][BootstrapNext]_vars

----------------------------------------------------------------------------
\* An administrator looking at the keys while they are issued, used and revoked

InfoNext ==
    \/ Tick
    \/ \E k \in GeneratedKeys, s \in GenScopes :
          Fresh(k) /\ Generate(k, s, <<1>>, DefaultExpiresInDays, <<>>)
    \/ \E k \in GeneratedKeys : CheckRateLimit(k)
    \/ \E k \in GeneratedKeys : Revoke(k)
    \/ \E k \in RateKeys : GetKeyInfo(k)
    \/ \E u \in BOOLEAN : ListKeys(u)

SpecInfo == Init /\ [][InfoNext]_vars

----------------------------------------------------------------------------
\* An administrator updating a key, field by field, while the key is in use

UpdMetadata == {<<>>, <<[a |-> 1]>>, <<[b |-> 2]>>, <<[a |-> 3]>>}
RaisedLimit == {<<>>, <<2>>}

UpdateNext ==
    \/ Tick
    \/ \E k \in GeneratedKeys :
          Fresh(k) /\ Generate(k, <<>>, <<1>>, DefaultExpiresInDays, <<>>)
    \/ \E k \in GeneratedKeys, s \in UpdScopes, l \in RaisedLimit, d \in UpdDays,
          m \in UpdMetadata : Update(k, s, l, d, m)
    \/ \E k \in GeneratedKeys : CheckRateLimit(k)

SpecUpdate == Init /\ [][UpdateNext]_vars

----------------------------------------------------------------------------
\* Threads calling check_rate_limit for one credential.  The manager takes no
\* lock, so another thread may run between any two statements, and between the
\* read and the write of `tracker["requests"] += 1`.  A thread's `tracker` is a
\* reference to the dict stored in _request_tracker; when another thread stores a
\* new dict under the key, the thread goes on with the old one (own = TRUE, with
\* its fields in the thread's record).

\* the dict the thread's `tracker` refers to
MyTracker(th) ==
    IF thr[th].own
    THEN [requests |-> thr[th].requests, window_start |-> thr[th].window_start]
    ELSE request_tracker[_hash_key(thr[th].api_key)]

\* the thread's `tracker` dict becomes value, and the thread moves to pc
WriteMyTracker(th, value, pc) ==
    IF thr[th].own
    THEN /\ thr' = [thr EXCEPT ![th] =
                      IF pc = "idle" THEN IdleThread
                      ELSE [thr[th] EXCEPT !.requests = value.requests,
                                           !.window_start = value.window_start,
                                           !.pc = pc]]
         /\ UNCHANGED request_tracker
    ELSE /\ request_tracker' = Put(request_tracker, _hash_key(thr[th].api_key), value)
         /\ thr' = [thr EXCEPT ![th] =
                      IF pc = "idle" THEN IdleThread ELSE [thr[th] EXCEPT !.pc = pc]]

\* line 97: the call starts
Enter(th, api_key) ==
    /\ thr[th].pc = "idle"
    /\ thr' = [thr EXCEPT ![th] = [IdleThread EXCEPT !.pc = "L100", !.api_key = api_key]]
    /\ UNCHANGED <<api_keys, request_tracker, now, exclude_paths, req, ret, admitted, heap>>

\* line 100: if key_hash not in self._request_tracker
TestTracker(th) ==
    /\ thr[th].pc = "L100"
    /\ thr' = [thr EXCEPT ![th].pc =
                 IF _hash_key(thr[th].api_key) \notin DOMAIN request_tracker
                 THEN "L101" ELSE "L106"]
    /\ UNCHANGED <<api_keys, request_tracker, now, exclude_paths, req, ret, admitted, heap>>

\* lines 101-104: a new dict is stored under the key; the threads that hold the
\* dict stored before keep that one
CreateTracker(th) ==
    /\ thr[th].pc = "L101"
    /\ LET key_hash == _hash_key(thr[th].api_key) IN
       /\ request_tracker' = Put(request_tracker, key_hash, NewTracker(now))
       /\ admitted' = Put(admitted, key_hash, 0)
       /\ thr' = [x \in Threads |->
                    IF x = th THEN [thr[x] EXCEPT !.pc = "L106"]
                    ELSE IF /\ thr[x].api_key = thr[th].api_key
                            /\ thr[x].pc \in {"L110", "L112", "L113", "L116", "L122", "L122w"}
                            /\ ~thr[x].own
                         THEN [thr[x] EXCEPT !.own = TRUE,
                                             !.requests = request_tracker[key_hash].requests,
                                             !.window_start = request_tracker[key_hash].window_start]
                         ELSE thr[x]]
    /\ UNCHANGED <<api_keys, now, exclude_paths, req, ret, heap>>

\* lines 106-107: tracker = self._request_tracker[key_hash];
\* key_info = self._api_keys[key_hash] (KeyError ends the call)
LoadTracker(th) ==
    /\ thr[th].pc = "L106"
    /\ thr' = [thr EXCEPT ![th] =
                 IF /\ _hash_key(thr[th].api_key) \in DOMAIN request_tracker
                    /\ _hash_key(thr[th].api_key) \in DOMAIN api_keys
                 THEN [thr[th] EXCEPT !.pc = "L110"] ELSE IdleThread]
    /\ UNCHANGED <<api_keys, request_tracker, now, exclude_paths, req, ret, admitted, heap>>

\* lines 110-111: current_time = time.time(); the test of the window
TestWindow(th) ==
    /\ thr[th].pc = "L110"
    /\ thr' = [thr EXCEPT ![th].current_time = now,
                          ![th].pc = IF window_elapsed(MyTracker(th), now)
                                     THEN "L112" ELSE "L116"]
    /\ UNCHANGED <<api_keys, request_tracker, now, exclude_paths, req, ret, admitted, heap>>

\* line 112: tracker["requests"] = 0
ResetRequests(th) ==
    /\ thr[th].pc = "L112"
    /\ WriteMyTracker(th, [MyTracker(th) EXCEPT !.requests = 0], "L113")
    /\ admitted' = IF thr[th].own THEN admitted
                   ELSE Put(admitted, _hash_key(thr[th].api_key), 0)
    /\ UNCHANGED <<api_keys, now, exclude_paths, req, ret, heap>>

\* line 113: tracker["window_start"] = current_time
ResetWindowStart(th) ==
    /\ thr[th].pc = "L113"
    /\ WriteMyTracker(th, [MyTracker(th) EXCEPT !.window_start = thr[th].current_time],
                      "L116")
    /\ UNCHANGED <<api_keys, now, exclude_paths, req, ret, admitted, heap>>

\* lines 116-119: the test of the limit; return False when it is reached
TestLimit(th) ==
    /\ thr[th].pc = "L116"
    /\ thr' = [thr EXCEPT ![th] =
                 IF limit_reached(MyTracker(th), api_keys[_hash_key(thr[th].api_key)].rate_limit)
                 THEN IdleThread ELSE [thr[th] EXCEPT !.pc = "L122"]]
    /\ UNCHANGED <<api_keys, request_tracker, now, exclude_paths, req, ret, admitted, heap>>

\* line 122, first half: tracker["requests"] is read
ReadRequests(th) ==
    /\ thr[th].pc = "L122"
    /\ thr' = [thr EXCEPT ![th].tmp = MyTracker(th).requests, ![th].pc = "L122w"]
    /\ UNCHANGED <<api_keys, request_tracker, now, exclude_paths, req, ret, admitted, heap>>

\* line 122, second half, and line 123: the sum is stored; return True
WriteRequests(th) ==
    /\ thr[th].pc = "L122w"
    /\ WriteMyTracker(th, [MyTracker(th) EXCEPT !.requests = thr[th].tmp + 1], "idle")
    /\ admitted' = Put(admitted, _hash_key(thr[th].api_key),
                       admitted[_hash_key(thr[th].api_key)] + 1)
    /\ UNCHANGED <<api_keys, now, exclude_paths, req, ret, heap>>

ThreadsNext ==
    \/ Tick
    \/ \E k \in GeneratedKeys, l \in RateLimits :
          Fresh(k) /\ DoGenerate(k, <<>>, l, DefaultExpiresInDays, <<>>) /\ UNCHANGED ret
    \/ \E th \in Threads, k \in GeneratedKeys : ~Fresh(k) /\ Enter(th, k)
    \/ \E th \in Threads :
          \/ TestTracker(th) \/ CreateTracker(th) \/ LoadTracker(th)
          \/ TestWindow(th) \/ ResetRequests(th) \/ ResetWindowStart(th)
          \/ TestLimit(th) \/ ReadRequests(th) \/ WriteRequests(th)

SpecThreads == Init /\ [][ThreadsNext]_vars

----------------------------------------------------------------------------
\* Threads inside update_key while other threads read the records.  update_key
\* takes no lock and writes the record's fields one statement after the other,
\* into the dict that is in the store; a reader's key_info.copy() is one step.

\* lines 174-179: the call starts; without a record it returns False at once
EnterUpdate(th, api_key, scopes, rate_limit, expires_in_days, metadata) ==
    /\ thr[th].pc = "idle"
    /\ thr' = [thr EXCEPT ![th] =
                 IF _hash_key(api_key) \notin DOMAIN api_keys THEN IdleThread
                 ELSE [pc |-> "L182", api_key |-> api_key, scopes |-> scopes,
                       rate_limit |-> rate_limit, expires_in_days |-> expires_in_days,
                       metadata |-> metadata]]
    /\ UNCHANGED <<api_keys, request_tracker, now, exclude_paths, req, ret, admitted, heap>>

\* the thread's key_info dict with one field written, and the thread at pc
WriteField(th, value, pc) ==
    /\ api_keys' = Put(api_keys, _hash_key(thr[th].api_key), value)
    /\ thr' = [thr EXCEPT ![th] = IF pc = "idle" THEN IdleThread
                                  ELSE [thr[th] EXCEPT !.pc = pc]]
    /\ UNCHANGED <<request_tracker, now, exclude_paths, req, ret, admitted, heap>>

\* lines 182-183: if scopes is not None: key_info["scopes"] = scopes
SetScopes(th) ==
    /\ thr[th].pc = "L182"
    /\ LET key_info == api_keys[_hash_key(thr[th].api_key)] IN
       WriteField(th, IF thr[th].scopes # <<>>
                      THEN [key_info EXCEPT !.scopes = thr[th].scopes[1]]
                      ELSE key_info, "L185")

\* lines 185-186: if rate_limit is not None: key_info["rate_limit"] = rate_limit
SetRateLimit(th) ==
    /\ thr[th].pc = "L185"
    /\ LET key_info == api_keys[_hash_key(thr[th].api_key)] IN
       WriteField(th, IF thr[th].rate_limit # <<>>
                      THEN [key_info EXCEPT !.rate_limit = thr[th].rate_limit[1]]
                      ELSE key_info, "L188")

\* lines 188-189: if expires_in_days is not None: key_info["expires_at"] = ...
SetExpiresAt(th) ==
    /\ thr[th].pc = "L188"
    /\ LET key_info == api_keys[_hash_key(thr[th].api_key)] IN
       WriteField(th, IF thr[th].expires_in_days # <<>>
                      THEN [key_info EXCEPT !.expires_at =
                                now + thr[th].expires_in_days[1] * SecondsPerDay]
                      ELSE key_info, "L191")

\* lines 191-195: if metadata is not None: key_info["metadata"].update(metadata);
\* return True
UpdateMetadata(th) ==
    /\ thr[th].pc = "L191"
    /\ LET key_info == api_keys[_hash_key(thr[th].api_key)] IN
       WriteField(th, IF thr[th].metadata # <<>>
                      THEN [key_info EXCEPT !.metadata = Merge(@, thr[th].metadata[1])]
                      ELSE key_info, "idle")

ReadersNext ==
    \/ Tick
    \/ \E k \in GeneratedKeys :
          Fresh(k) /\ DoGenerate(k, <<>>, <<1>>, DefaultExpiresInDays, <<>>) /\ UNCHANGED ret
    \/ \E th \in Threads, k \in GeneratedKeys :
          ~Fresh(k) /\ EnterUpdate(th, k, <<{"write"}>>, <<2>>, <<1>>, <<[a |-> 1]>>)
    \/ \E th \in Threads :
          SetScopes(th) \/ SetRateLimit(th) \/ SetExpiresAt(th) \/ UpdateMetadata(th)
    \/ \E u \in BOOLEAN : ListKeys(u)
    \/ \E k \in GeneratedKeys : GetKeyInfo(k)

SpecReaders == Init /\ [][ReadersNext]_vars

----------------------------------------------------------------------------
\* Every operation on one key: the manager's methods called directly, and
\* requests carrying the key through the Gate

AllNext ==
    \/ Tick
    \/ \E k \in GeneratedKeys, d \in ShortOrDefaultDays :
          Fresh(k) /\ Generate(k, <<>>, <<1>>, d, <<>>)
    \/ \E k \in GeneratedKeys : Update(k, <<>>, <<2>>, <<1>>, <<>>)
    \/ \E k \in GeneratedKeys : Validate(k, None)
    \/ \E k \in GeneratedKeys : CheckRateLimit(k)
    \/ \E k \in GeneratedKeys \cup {DefaultKey} : Revoke(k)
    \/ LoadDefault
    \/ \E k \in GeneratedKeys : GetKeyInfo(k)
    \/ ListKeys(TRUE)
    \/ \E r \in Requests, k \in GeneratedKeys : Dispatch(r, "/api/jobs", k)
    \/ \E r \in Requests : Return(r, 200)

SpecAll == Init /\ [][AllNext]_vars

----------------------------------------------------------------------------
\* The Gate configured with an empty allow-list

\* ... and add_api_key_middleware(app, exclude_paths=[])
InitEmptyAllowList ==
    /\ ManagerInit
    /\ exclude_paths = init_exclude_paths(<< <<>> >>)
    /\ req = [r \in Requests |-> IdleRequest]

SpecEmptyAllowList == InitEmptyAllowList /\ [][GateNext]_vars

\* C38: the requests that go past the checks are those whose path starts with
\* an entry of the allow-list the Gate was configured with, and the default
\* entries count only when no allow-list was configured: a Gate configured with
\* the empty allow-list puts every request through validate_key.
C38_EmptyGatesAll ==
    \A r \in Requests : req[r].pc # "idle" => req[r].checked

----------------------------------------------------------------------------
\* Claims about the Gate (specification Spec)

\* the path matches no entry of the allow-list
Gated(path) == \A i \in 1..Len(exclude_paths) : ~StartsWith(path, exclude_paths[i])

RejectionBody(message) == [success |-> FALSE, message |-> message]

\* C1: a request on a path that matches no allow-list entry, whose header's
\* credential fails validate_key, is answered 401 with the body
\* {success: false, message: <validate_key's reason>}, and the downstream handler
\* is not invoked for it: it leaves dispatch at once, with call_next never called.
C1_AuthRejected ==
    [][\A r \in Requests, p \in Paths, h \in HeaderValues :
         (Dispatch(r, p, h) /\ Gated(p) /\ ~validate_key(api_keys, now, h, None).ok)
         => /\ req'[r].pc = "done"
            /\ req'[r].response =
                 [status_code |-> 401,
                  content |-> RejectionBody(validate_key(api_keys, now, h, None).msg)]
            /\ req'[r].called_next = 0]_vars

C1_Witness ==
    \E r \in Requests :
        /\ req[r].pc = "done" /\ req[r].path = "/api/jobs" /\ req[r].header = "sk-unknown"
        /\ req[r].response = [status_code |-> 401, content |-> RejectionBody("Invalid API key")]
        /\ req[r].called_next = 0

\* C2: a request on a gated path whose credential passes validate_key and for
\* which check_rate_limit returns a failure is answered 429 with the body
\* {success: false, message: <check_rate_limit's reason>}, and the downstream
\* handler is not invoked for it.
C2_RateRejected ==
    [][\A r \in Requests, p \in Paths, h \in HeaderValues :
         (/\ Dispatch(r, p, h) /\ Gated(p)
          /\ validate_key(api_keys, now, h, None).ok
          /\ check_rate_limit(api_keys, request_tracker, now, h).res.raised = None
          /\ ~check_rate_limit(api_keys, request_tracker, now, h).res.ok)
         => /\ req'[r].pc = "done"
            /\ req'[r].response =
                 [status_code |-> 429,
                  content |-> RejectionBody(
                      check_rate_limit(api_keys, request_tracker, now, h).res.msg)]
            /\ req'[r].called_next = 0]_vars

C2_Witness ==
    \E r \in Requests :
        /\ req[r].pc = "done" /\ req[r].path = "/api/jobs" /\ req[r].header = "sk-1"
        /\ req[r].response =
             [status_code |-> 429, content |-> RejectionBody("API rate limit exceeded")]
        /\ req[r].called_next = 0

\* C3: a request whose path starts with an entry of the allow-list goes to the
\* downstream handler without validate_key or check_rate_limit being called and
\* with the records and the trackers unchanged, whatever its header, None included.
C3_AllowListBypass ==
    [][\A r \in Requests, p \in Paths, h \in HeaderValues :
         (Dispatch(r, p, h) /\ ~Gated(p))
         => /\ req'[r].pc = "call_next"
            /\ req'[r].called_next = 1
            /\ ~req'[r].checked
            /\ api_keys' = api_keys
            /\ request_tracker' = request_tracker]_vars

C3_Witness ==
    \E r \in Requests :
        /\ req[r].pc = "call_next" /\ req[r].path = "/health/live" /\ req[r].header = None
        /\ ~req[r].checked /\ req[r].called_next = 1
        /\ request_tracker = EmptyDict

\* admitted calls the tracker of api_key counts in the window that holds time t
Used(trk, t, api_key) ==
    LET key_hash == _hash_key(api_key) IN
    IF key_hash \in DOMAIN trk /\ t - trk[key_hash].window_start <= 3600
    THEN trk[key_hash].requests ELSE 0

\* C6: end to end, for a key issued with rate_limit = N and still valid: a gated
\* request carrying it is forwarded to the handler while fewer than N were
\* forwarded in the current window, and is otherwise answered 429 with
\* {success: false, message} without the handler being invoked; the count of the
\* window grows by one with each forwarded request and by nothing else.
C6_EndToEndQuota ==
    [][/\ \A r \in Requests, p \in Paths, h \in GeneratedKeys :
            (/\ Dispatch(r, p, h) /\ Gated(p)
             /\ _hash_key(h) \in DOMAIN api_keys
             /\ api_keys[_hash_key(h)].expires_at >= now)
            => IF Used(request_tracker, now, h) < api_keys[_hash_key(h)].rate_limit
               THEN /\ req'[r].pc = "call_next" /\ req'[r].called_next = 1
                    /\ Used(request_tracker', now', h) = Used(request_tracker, now, h) + 1
               ELSE /\ req'[r].pc = "done" /\ req'[r].called_next = 0
                    /\ req'[r].response =
                         [status_code |-> 429,
                          content |-> RejectionBody("API rate limit exceeded")]
                    /\ Used(request_tracker', now', h) = Used(request_tracker, now, h)
       /\ \A h \in GeneratedKeys :
            Used(request_tracker', now', h) > Used(request_tracker, now, h)
            => \E r \in Requests, p \in Paths :
                  Dispatch(r, p, h) /\ Gated(p) /\ req'[r].pc = "call_next"]_vars

C6_Witness ==
    \E r \in Requests :
        /\ req[r].pc = "done" /\ req[r].header = "sk-1"
        /\ req[r].response.status_code = 429 /\ req[r].called_next = 0
        /\ _hash_key("sk-1") \in DOMAIN api_keys
        /\ api_keys[_hash_key("sk-1")].rate_limit = 2
        /\ Used(request_tracker, now, "sk-1") = 2

\* the terminal outcomes of a request, read off the record of one that left dispatch
REJECTED_AUTH(q) ==
    /\ q.called_next = 0
    /\ \E msg \in {"API key is required", "Invalid API key", "API key has expired"} :
          q.response = [status_code |-> 401, content |-> RejectionBody(msg)]
REJECTED_RATE(q) ==
    /\ q.called_next = 0
    /\ q.response = [status_code |-> 429, content |-> RejectionBody("API rate limit exceeded")]
FORWARDED(q) ==
    /\ q.called_next = 1
    /\ \E st \in HandlerStatus :
          q.response = [status_code |-> st, content |-> [handler |-> TRUE]]

\* C20: every request that has left dispatch ended in exactly one of
\* REJECTED_AUTH, REJECTED_RATE and FORWARDED, and no exception came out of the
\* Gate; call_next is called at most once per request, and only for a request
\* on an allow-listed path or one that passed validate_key and then
\* check_rate_limit; check_rate_limit is not called when validate_key failed
\* (the trackers stay) and at most once otherwise (no tracker counts more than
\* one request more); a rejection ends the request in that very step; and the
\* handler's response is what dispatch returns, with no further call of the
\* manager on the way out.
C20_OneOutcome ==
    /\ [](\A r \in Requests :
            /\ req[r].called_next \in {0, 1}
            /\ req[r].raised = None
            /\ req[r].pc = "call_next" => req[r].called_next = 1
            /\ req[r].pc = "done"
                 => Cardinality({o \in {"auth", "rate", "forwarded"} :
                                   \/ o = "auth" /\ REJECTED_AUTH(req[r])
                                   \/ o = "rate" /\ REJECTED_RATE(req[r])
                                   \/ o = "forwarded" /\ FORWARDED(req[r])}) = 1)
    /\ [][\A r \in Requests, p \in Paths, h \in HeaderValues :
            (/\ req'[r].path = p /\ req'[r].header = h /\ req'[r].pc # "idle"
             /\ Dispatch(r, p, h))
            => LET valid == validate_key(api_keys, now, h, None).ok
                   allowed == check_rate_limit(api_keys, request_tracker, now, h).res.ok
               IN  /\ api_keys' = api_keys
                   /\ (Gated(p) /\ ~valid) => /\ request_tracker' = request_tracker
                                               /\ req'[r].pc = "done"
                                               /\ REJECTED_AUTH(req'[r])
                   /\ (Gated(p) /\ valid /\ ~allowed) => /\ req'[r].pc = "done"
                                                          /\ REJECTED_RATE(req'[r])
                   /\ req'[r].called_next = 1 <=> (~Gated(p) \/ (valid /\ allowed))
                   /\ \A x \in DOMAIN request_tracker' :
                         request_tracker'[x].requests <=
                           1 + (IF x \in DOMAIN request_tracker
                                THEN request_tracker[x].requests ELSE 0)]_vars
    /\ [][\A r \in Requests, st \in HandlerStatus :
            (req[r].pc = "call_next" /\ Return(r, st))
            => /\ req'[r].pc = "done"
               /\ req'[r].called_next = 1
               /\ req'[r].response = [status_code |-> st, content |-> [handler |-> TRUE]]
               /\ api_keys' = api_keys
               /\ request_tracker' = request_tracker]_vars

C20_Witness ==
    \E r \in Requests :
        /\ req[r].pc = "done" /\ req[r].path = "/api/jobs" /\ req[r].header = "sk-1"
        /\ req[r].checked /\ req[r].called_next = 1
        /\ req[r].response = [status_code |-> 404, content |-> [handler |-> TRUE]]
        /\ _hash_key("sk-1") \in DOMAIN request_tracker
        /\ request_tracker[_hash_key("sk-1")].requests = 1

\* C33: every request the Gate forwards on a path outside the allow-list
\* carried a credential whose record was in the store and not expired when
\* validate_key looked at it, and forwarding it added exactly 1 to the requests
\* its tracker counts in the current window (0 before, for a tracker that is
\* new or whose window was over), leaving every other tracker as it was: no
\* gated request is handed to call_next without one unit of its credential's
\* quota being used.
C33_ForwardedPaid ==
    [][\A r \in Requests, p \in Paths, h \in HeaderValues :
         (/\ req'[r].path = p /\ req'[r].header = h /\ req'[r].pc = "call_next"
          /\ Gated(p)
          /\ Dispatch(r, p, h))
         => /\ h \in GeneratedKeys \cup {DefaultKey}
            /\ _hash_key(h) \in DOMAIN api_keys
            /\ api_keys[_hash_key(h)].expires_at >= now
            /\ req'[r].checked
            /\ _hash_key(h) \in DOMAIN request_tracker'
            /\ request_tracker'[_hash_key(h)].requests = Used(request_tracker, now, h) + 1
            /\ request_tracker'[_hash_key(h)].requests <= api_keys[_hash_key(h)].rate_limit
            /\ \A x \in DOMAIN request_tracker \ {_hash_key(h)} :
                  x \in DOMAIN request_tracker' /\ request_tracker'[x] = request_tracker[x]]_vars

\* the second request of the key's window is with the handler
C33_Witness ==
    \E r \in Requests :
        /\ req[r].pc = "call_next" /\ req[r].path = "/api/jobs" /\ req[r].header = "sk-1"
        /\ req[r].checked /\ req[r].called_next = 1
        /\ _hash_key("sk-1") \in DOMAIN api_keys
        /\ api_keys[_hash_key("sk-1")].rate_limit = 2
        /\ api_keys[_hash_key("sk-1")].expires_at > now
        /\ _hash_key("sk-1") \in DOMAIN request_tracker
        /\ request_tracker[_hash_key("sk-1")] = [requests |-> 2, window_start |-> now]

\* C35: a gated request answered 401 uses no quota: the step that rejects it
\* leaves the record map and the tracker map as they were, so a request with a
\* missing, unknown or expired credential creates no tracker and advances no
\* counter.
C35_RejectionIsFree ==
    /\ [][\A r \in Requests :
            (/\ req'[r] # req[r]
             /\ req'[r].pc = "done"
             /\ req'[r].response.status_code = 401)
            => /\ api_keys' = api_keys
               /\ request_tracker' = request_tracker]_vars
    /\ [][\A r \in Requests, p \in Paths, h \in HeaderValues :
            (/\ req'[r].path = p /\ req'[r].header = h /\ req'[r].pc # "idle"
             /\ Gated(p)
             /\ \/ h = None \/ h = ""
                \/ _hash_key(h) \notin DOMAIN api_keys
                \/ api_keys[_hash_key(h)].expires_at < now
             /\ Dispatch(r, p, h))
            => /\ req'[r].response.status_code = 401
               /\ api_keys' = api_keys
               /\ request_tracker' = request_tracker]_vars

\* the key's one forwarded request was counted at 0; expired, it is turned away
\* after the window and its tracker still reads what that request left
C35_Witness ==
    \E r \in Requests :
        /\ req[r].pc = "done" /\ req[r].path = "/api/jobs" /\ req[r].header = "sk-1"
        /\ req[r].response =
             [status_code |-> 401, content |-> RejectionBody("API key has expired")]
        /\ now = 3601
        /\ _hash_key("sk-1") \in DOMAIN api_keys
        /\ request_tracker = [h \in {_hash_key("sk-1")} |-> [requests |-> 1, window_start |-> 0]]

\* C21: a gated request whose credential header is absent or empty is turned
\* away like one carrying an unknown credential, but for the message: status
\* 401, a body of the same two keys with success = false, the handler not
\* invoked, the records and the trackers unchanged; the message is "API key is
\* required" for the absent or empty header and "Invalid API key" for the
\* unknown credential.
C21_MissingRejected ==
    [][\A r \in Requests, p \in Paths, h \in {None, "", "sk-unknown"} :
         (/\ req'[r].path = p /\ req'[r].header = h /\ req'[r].pc # "idle"
          /\ Gated(p) /\ Dispatch(r, p, h))
         => /\ req'[r].pc = "done"
            /\ req'[r].called_next = 0
            /\ req'[r].response =
                 [status_code |-> 401,
                  content |-> [success |-> FALSE,
                               message |-> IF h = "sk-unknown" THEN "Invalid API key"
                                           ELSE "API key is required"]]
            /\ api_keys' = api_keys
            /\ request_tracker' = request_tracker]_vars

C21_Witness ==
    \E r \in Requests :
        /\ req[r].pc = "done" /\ req[r].path = "/api/jobs" /\ req[r].header = None
        /\ req[r].response =
             [status_code |-> 401, content |-> RejectionBody("API key is required")]
        /\ req[r].called_next = 0

\* C21 as the spec words it: the answer to an absent or empty header is the
\* answer to an unknown credential, message included.
C21_MissingAsUnknown ==
    [][\A r \in Requests, p \in Paths, h \in {None, ""} :
         (/\ req'[r].path = p /\ req'[r].header = h /\ req'[r].pc # "idle"
          /\ Gated(p) /\ Dispatch(r, p, h))
         => req'[r].response =
              dispatch(api_keys, request_tracker, now, exclude_paths, p, "sk-unknown").response]_vars

----------------------------------------------------------------------------
\* Claims about check_rate_limit (specification SpecRate)

\* C5: for a record with rate_limit = N > 0, a call of check_rate_limit made with
\* no tracker yet or inside the tracker's window succeeds and adds exactly 1 to
\* requests while requests < N (so the first N calls of a fresh tracker succeed),
\* and with requests = N (or more, after an update lowered N) it fails with
\* "API rate limit exceeded" and leaves requests as it is.
C5_FirstNAdmitted ==
    [][\A k \in RateKeys :
         (/\ CheckRateLimit(k)
          /\ _hash_key(k) \in DOMAIN api_keys
          /\ api_keys[_hash_key(k)].rate_limit > 0
          /\ _hash_key(k) \in DOMAIN request_tracker
                => now - request_tracker[_hash_key(k)].window_start <= 3600)
         => LET N == api_keys[_hash_key(k)].rate_limit
                before == IF _hash_key(k) \in DOMAIN request_tracker
                          THEN request_tracker[_hash_key(k)].requests ELSE 0
                after == request_tracker'[_hash_key(k)].requests
            IN  /\ before < N => ret'.res = [ok |-> TRUE, msg |-> None, raised |-> None]
                                 /\ after = before + 1
                /\ before >= N => ret'.res = [ok |-> FALSE, msg |-> "API rate limit exceeded",
                                             raised |-> None]
                                 /\ after = before]_vars

C5_Witness ==
    /\ ret.op = "check_rate_limit" /\ ret.api_key = "sk-1"
    /\ ret.res = [ok |-> FALSE, msg |-> "API rate limit exceeded", raised |-> None]
    /\ _hash_key("sk-1") \in DOMAIN api_keys
    /\ api_keys[_hash_key("sk-1")].rate_limit = 2
    /\ api_keys[_hash_key("sk-1")].created_at = now
    /\ request_tracker[_hash_key("sk-1")] = [requests |-> 2, window_start |-> now]

\* C18: a call of check_rate_limit for a record whose tracker's window is over
\* (now - window_start > 3600) resets the tracker before it tests the limit: with
\* rate_limit > 0 the call succeeds, however many requests the old window
\* counted, and leaves requests = 1 and window_start = now.  With
\* now - window_start <= 3600 there is no reset: window_start stays and requests
\* does not go down.
C18_WindowReset ==
    [][\A k \in RateKeys :
         (/\ CheckRateLimit(k)
          /\ _hash_key(k) \in DOMAIN api_keys
          /\ _hash_key(k) \in DOMAIN request_tracker)
         => LET old == request_tracker[_hash_key(k)]
                new == request_tracker'[_hash_key(k)]
            IN  IF now - old.window_start > 3600
                THEN api_keys[_hash_key(k)].rate_limit > 0
                     => /\ ret'.res = [ok |-> TRUE, msg |-> None, raised |-> None]
                        /\ new = [requests |-> 1, window_start |-> now]
                ELSE /\ new.window_start = old.window_start
                     /\ new.requests >= old.requests]_vars

\* the key was issued in the first window and admitted one second after it
C18_Witness ==
    /\ ret.op = "check_rate_limit" /\ ret.api_key = "sk-1"
    /\ ret.res = [ok |-> TRUE, msg |-> None, raised |-> None]
    /\ now = 3601
    /\ _hash_key("sk-1") \in DOMAIN api_keys
    /\ api_keys[_hash_key("sk-1")].created_at = 0
    /\ api_keys[_hash_key("sk-1")].rate_limit = 1
    /\ request_tracker[_hash_key("sk-1")] = [requests |-> 1, window_start |-> 3601]

\* C31: after any sequence of calls of the manager, check_rate_limit called
\* directly included, every key of the tracker map is a key of the record map:
\* no tracker is there without a record.
C31_TrackerHasRecord == DOMAIN request_tracker \subseteq DOMAIN api_keys

\* C32: in every reachable state the tracker of a credential that has a record
\* counts no more requests than the record's rate_limit, also after update_key
\* changed the rate_limit in the middle of a window.
C32_WithinLimit ==
    \A h \in DOMAIN request_tracker \cap DOMAIN api_keys :
        request_tracker[h].requests <= api_keys[h].rate_limit

\* C36: a call of check_rate_limit that is denied inside the tracker's window
\* (now - window_start <= 3600) leaves the tracker as it was, requests and
\* window_start, so denied calls, however many, do not move the moment the
\* window is over.
C36_DenialLeavesTracker ==
    /\ [](\A k \in RateKeys :
            LET h == _hash_key(k) IN
            (/\ h \in DOMAIN api_keys /\ h \in DOMAIN request_tracker
             /\ now - request_tracker[h].window_start <= 3600
             /\ request_tracker[h].requests >= api_keys[h].rate_limit)
            => check_rate_limit(api_keys, request_tracker, now, k) =
                 [res |-> [ok |-> FALSE, msg |-> "API rate limit exceeded", raised |-> None],
                  tracker |-> request_tracker])
    /\ [][\A k \in RateKeys :
            (/\ ret'.op = "check_rate_limit" /\ ret'.api_key = k
             /\ ret'.res.msg = "API rate limit exceeded"
             /\ _hash_key(k) \in DOMAIN request_tracker
             /\ now - request_tracker[_hash_key(k)].window_start <= 3600
             /\ CheckRateLimit(k))
            => /\ request_tracker' = request_tracker
               /\ api_keys' = api_keys]_vars

\* denied at the last second of the window that began at 0, which is still the
\* tracker's window
C36_Witness ==
    /\ ret.op = "check_rate_limit" /\ ret.api_key = "sk-1"
    /\ ret.res = [ok |-> FALSE, msg |-> "API rate limit exceeded", raised |-> None]
    /\ now = 3600
    /\ _hash_key("sk-1") \in DOMAIN api_keys
    /\ api_keys[_hash_key("sk-1")].rate_limit = 1
    /\ _hash_key("sk-1") \in DOMAIN request_tracker
    /\ request_tracker[_hash_key("sk-1")] = [requests |-> 1, window_start |-> 0]

\* C39: update_key does not touch the trackers: after update_key(rate_limit = L)
\* in the middle of a window the tracker's requests and window_start are what
\* they were, and the next check_rate_limit in that window is admitted if and
\* only if the requests counted so far are fewer than L.
C39_UpdateKeepsTracker ==
    /\ [][\A k \in GeneratedKeys :
            (ret'.op = "update_key" /\ ret'.api_key = k /\ api_keys' # api_keys)
            => request_tracker' = request_tracker]_vars
    /\ [](\A k \in GeneratedKeys, l \in RateLimits :
            LET h == _hash_key(k)
                u == update_key(api_keys, now, k, <<>>, l, <<>>, <<>>)
                c == check_rate_limit(u.keys, request_tracker, now, k)
            IN  (/\ h \in DOMAIN api_keys /\ h \in DOMAIN request_tracker
                 /\ now - request_tracker[h].window_start <= 3600)
                => /\ c.res.ok <=> request_tracker[h].requests < l[1]
                   /\ c.tracker[h].window_start = request_tracker[h].window_start
                   /\ c.tracker[h].requests =
                        request_tracker[h].requests + (IF c.res.ok THEN 1 ELSE 0))

\* the limit was lowered to 1 at the end of a window in which 2 requests were
\* admitted, and the tracker reads as before
C39_Witness ==
    /\ ret.op = "update_key" /\ ret.api_key = "sk-1" /\ ret.res.ok
    /\ now = 3600
    /\ _hash_key("sk-1") \in DOMAIN api_keys
    /\ api_keys[_hash_key("sk-1")].rate_limit = 1
    /\ _hash_key("sk-1") \in DOMAIN request_tracker
    /\ request_tracker[_hash_key("sk-1")] = [requests |-> 2, window_start |-> 0]

\* C19: check_rate_limit called for a credential without a record fails closed:
\* it returns (False, "Invalid API key") (UnknownCredential) as a value and
\* raises nothing.
C19_FailsClosed ==
    [][\A k \in RateKeys :
         (CheckRateLimit(k) /\ _hash_key(k) \notin DOMAIN api_keys)
         => ret'.res = [ok |-> FALSE, msg |-> "Invalid API key", raised |-> None]]_vars

----------------------------------------------------------------------------
\* Claims about validate_key (specification SpecValidate)

\* C7: validate_key of a non-empty raw credential whose hash has no record in
\* the store fails with "Invalid API key" (UnknownCredential), whatever the scope.
C7_UnknownCredential ==
    [][\A k \in ValidateKeys, s \in ScopeArgs :
         (Validate(k, s) /\ k # None /\ k # "" /\ _hash_key(k) \notin DOMAIN api_keys)
         => ret'.res = [ok |-> FALSE, msg |-> "Invalid API key", raised |-> None]]_vars

C7_Witness ==
    /\ ret.op = "validate_key" /\ ret.api_key = "sk-1"
    /\ _hash_key("sk-1") \notin DOMAIN api_keys
    /\ ret.res = [ok |-> FALSE, msg |-> "Invalid API key", raised |-> None]

\* a record some caller could have stored under the hash of the empty credential
RecordOfEmpty ==
    [scopes |-> {"*"}, rate_limit |-> 1, created_at |-> now, expires_at |-> now + 1,
     metadata |-> EmptyDict]

\* C8: validate_key fails with "API key is required" (MissingCredential) when the
\* raw credential is None or empty, and the store is not consulted for it: the
\* answer is the same were a valid record stored under the empty credential's hash.
C8_MissingCredential ==
    /\ [][\A k \in ValidateKeys, s \in ScopeArgs :
            (Validate(k, s) /\ (k = None \/ k = ""))
            => ret'.res = [ok |-> FALSE, msg |-> "API key is required", raised |-> None]]_vars
    /\ [](\A s \in ScopeArgs :
            validate_key(Put(api_keys, _hash_key(""), RecordOfEmpty), now, "", s)
              = [ok |-> FALSE, msg |-> "API key is required", raised |-> None])

C8_Witness ==
    /\ ret.op = "validate_key" /\ ret.api_key = ""
    /\ ret.res = [ok |-> FALSE, msg |-> "API key is required", raised |-> None]

HasRecord(k) == k # None /\ k # "" /\ _hash_key(k) \in DOMAIN api_keys

\* C9: for an existing record, validate_key fails with "API key has expired"
\* exactly when now > expires_at; validate_key leaves the store as it is, so the
\* expired record stays; and a record that is expired is still there and still
\* fails with that reason after any step that is not an update or a revoke of it.
C9_Expired ==
    /\ [][\A k \in ValidateKeys, s \in ScopeArgs :
            (Validate(k, s) /\ HasRecord(k))
            => /\ (ret'.res = [ok |-> FALSE, msg |-> "API key has expired", raised |-> None])
                    <=> (now > api_keys[_hash_key(k)].expires_at)
               /\ api_keys' = api_keys]_vars
    /\ [][\A k \in GeneratedKeys \cup {DefaultKey} :
            (/\ HasRecord(k) /\ now > api_keys[_hash_key(k)].expires_at
             /\ ~ \E s \in UpdScopes, d \in UpdDays : Update(k, s, <<>>, d, <<>>)
             /\ ~ Revoke(k))
            => /\ _hash_key(k) \in DOMAIN api_keys'
               /\ \A s \in ScopeArgs :
                    validate_key(api_keys', now', k, s)
                      = [ok |-> FALSE, msg |-> "API key has expired", raised |-> None]]_vars

C9_Witness ==
    /\ ret.op = "validate_key" /\ ret.api_key = "sk-1"
    /\ ret.res = [ok |-> FALSE, msg |-> "API key has expired", raised |-> None]
    /\ _hash_key("sk-1") \in DOMAIN api_keys
    /\ now = api_keys[_hash_key("sk-1")].expires_at + 1

\* C10: for an existing, unexpired record, validate_key with a scope name fails,
\* with "API key does not have permission for <scope>" (ScopeDenied), exactly when
\* the record's scopes hold neither that name nor "*", and succeeds otherwise;
\* without a scope (None, or the empty string, which the code reads as none) it
\* succeeds.  So a key generated with scopes {read} validates for read and is
\* denied write.
C10_ScopeDenied ==
    [][\A k \in ValidateKeys, s \in ScopeArgs :
         (/\ Validate(k, s) /\ HasRecord(k)
          /\ now <= api_keys[_hash_key(k)].expires_at)
         => LET scopes == api_keys[_hash_key(k)].scopes IN
            IF s \in ScopeNames /\ s \notin scopes /\ "*" \notin scopes
            THEN ret'.res = [ok |-> FALSE,
                             msg |-> "API key does not have permission for " \o s,
                             raised |-> None]
            ELSE ret'.res = [ok |-> TRUE, msg |-> None, raised |-> None]]_vars

C10_Witness ==
    /\ ret.op = "validate_key" /\ ret.api_key = "sk-1" /\ ret.scope = "write"
    /\ _hash_key("sk-1") \in DOMAIN api_keys
    /\ api_keys[_hash_key("sk-1")].scopes = {"read"}
    /\ api_keys[_hash_key("sk-1")].expires_at >= now
    /\ ret.res = [ok |-> FALSE, msg |-> "API key does not have permission for write",
                  raised |-> None]

\* C16: generate_key stores a new record under the hash of the string it
\* returns and touches no other record; not given, scopes are {"*"}, rate_limit
\* is 1000 and metadata is {}; created_at is now and expires_at is
\* now + expires_in_days * 86400; no tracker is created; and validate_key of the
\* returned string right afterwards succeeds.
C16_GenerateDefaults ==
    /\ [][\A k \in GeneratedKeys, s \in GenScopes, d \in ShortOrDefaultDays :
            Generate(k, s, <<>>, d, <<>>) =>
              LET h == _hash_key(k) IN
              /\ ret'.api_key = k
              /\ DOMAIN api_keys' = DOMAIN api_keys \cup {h}
              /\ \A x \in DOMAIN api_keys \ {h} : api_keys'[x] = api_keys[x]
              /\ api_keys'[h] =
                   [scopes |-> IF s = <<>> THEN {"*"} ELSE s[1],
                    rate_limit |-> 1000,
                    created_at |-> now,
                    expires_at |-> now + d * 86400,
                    metadata |-> <<>>]
              /\ request_tracker' = request_tracker
              /\ h \notin DOMAIN request_tracker'
              /\ validate_key(api_keys', now', k, None) =
                   [ok |-> TRUE, msg |-> None, raised |-> None]]_vars
    /\ [][\A k \in GeneratedKeys :
            (/\ ret.op = "generate_key" /\ ret.api_key = k
             /\ HasRecord(k) /\ api_keys[_hash_key(k)].created_at = now
             /\ Validate(k, None))
            => ret'.res = [ok |-> TRUE, msg |-> None, raised |-> None]]_vars

C16_Witness ==
    /\ ret.op = "validate_key" /\ ret.api_key = "sk-1"
    /\ ret.res = [ok |-> TRUE, msg |-> None, raised |-> None]
    /\ _hash_key("sk-1") \in DOMAIN api_keys
    /\ api_keys[_hash_key("sk-1")] =
         [scopes |-> {"*"}, rate_limit |-> 1000, created_at |-> now,
          expires_at |-> now + 90 * 86400, metadata |-> <<>>]
    /\ request_tracker = <<>>

----------------------------------------------------------------------------
\* Claims about keys issued one after another (specification SpecGenerate)

----------------------------------------------------------------------------
\* Claims about the manager's methods called one after another
\* (specification SpecManager)

\* C11: validate_key never changes state: whatever the credential, the scope and
\* the outcome, the records and the trackers are after the call what they were
\* before it; no tracker is created and none is incremented.
C11_ValidateReadOnly ==
    [][\A k \in ManagerKeys \cup {None}, s \in ManagerScopes :
         Validate(k, s) => /\ api_keys' = api_keys
                           /\ request_tracker' = request_tracker]_vars

C11_Witness ==
    /\ ret.op = "validate_key" /\ ret.api_key = "sk-1"
    /\ ret.res = [ok |-> TRUE, msg |-> None, raised |-> None]
    /\ _hash_key("sk-1") \in DOMAIN api_keys
    /\ _hash_key("sk-1") \notin DOMAIN request_tracker
    /\ _hash_key("sk-unknown") \in DOMAIN request_tracker

\* C12: revoke_key of a credential with a record removes the record and the
\* tracker of that credential (and nothing else) and returns True; without a
\* record it returns False and changes nothing.  So a second revoke_key of the
\* same credential, right after one that returned True, returns False and
\* changes nothing.
C12_Revoke ==
    /\ [][\A k \in ManagerKeys :
            Revoke(k) =>
              LET h == _hash_key(k) IN
              IF h \in DOMAIN api_keys
              THEN /\ ret'.res.ok
                   /\ DOMAIN api_keys' = DOMAIN api_keys \ {h}
                   /\ DOMAIN request_tracker' = DOMAIN request_tracker \ {h}
                   /\ \A x \in DOMAIN api_keys' : api_keys'[x] = api_keys[x]
                   /\ \A x \in DOMAIN request_tracker' :
                         request_tracker'[x] = request_tracker[x]
              ELSE /\ ~ret'.res.ok
                   /\ api_keys' = api_keys
                   /\ request_tracker' = request_tracker]_vars
    /\ [][\A k \in ManagerKeys :
            (ret.op = "revoke_key" /\ ret.api_key = k /\ ret.res.ok /\ Revoke(k))
            => /\ ~ret'.res.ok
               /\ api_keys' = api_keys
               /\ request_tracker' = request_tracker]_vars

\* the bootstrap key is never issued again, so it is gone only by a revoke_key
\* that returned True, and this one returned False
C12_Witness ==
    /\ ret.op = "revoke_key" /\ ret.api_key = DefaultKey /\ ~ret.res.ok
    /\ _hash_key(DefaultKey) \notin DOMAIN api_keys

\* validate_key and the Gate turn the credential k away as an unknown one
TurnedAwayAsUnknown(k) ==
    /\ \A s \in ScopeArgs :
          validate_key(api_keys, now, k, s) =
            [ok |-> FALSE, msg |-> "Invalid API key", raised |-> None]
    /\ \A p \in Paths :
          Gated(p) =>
            LET d == dispatch(api_keys, request_tracker, now, exclude_paths, p, k) IN
            /\ d.go = "respond"
            /\ d.response = [status_code |-> 401, content |-> RejectionBody("Invalid API key")]

\* C13: after revoke_key of a credential its record is away, and a validate_key
\* of the same raw credential right after it fails with "Invalid API key"
\* (UnknownCredential); the record stays away over every step that is not a
\* generate_key returning that very string; and while the record is away
\* validate_key fails with UnknownCredential and a gated request carrying the
\* credential is answered 401.
C13_RevokedIsUnknown ==
    /\ [][\A k \in ManagerKeys : Revoke(k) => _hash_key(k) \notin DOMAIN api_keys']_vars
    /\ [][\A k \in ManagerKeys, s \in ManagerScopes :
            (ret.op = "revoke_key" /\ ret.api_key = k /\ Validate(k, s))
            => ret'.res = [ok |-> FALSE, msg |-> "Invalid API key", raised |-> None]]_vars
    /\ [][\A k \in ManagerKeys :
            (_hash_key(k) \notin DOMAIN api_keys /\ _hash_key(k) \in DOMAIN api_keys')
            => \E s \in GenScopes, l \in RateLimits, d \in ShortOrDefaultDays :
                  Generate(k, s, l, d, <<>>)]_vars
    /\ [](\A k \in ManagerKeys :
            _hash_key(k) \notin DOMAIN api_keys => TurnedAwayAsUnknown(k))

C13_Witness ==
    /\ ret.op = "validate_key" /\ ret.api_key = DefaultKey
    /\ ret.res = [ok |-> FALSE, msg |-> "Invalid API key", raised |-> None]
    /\ _hash_key(DefaultKey) \notin DOMAIN api_keys

----------------------------------------------------------------------------
\* Claims about update_key (specification SpecUpdate)

\* a step in which update_key was called: the caller holds its result, and the
\* call is the only operation here that leaves one
UpdateStep(k) ==
    /\ ret'.op = "update_key" /\ ret'.api_key = k
    /\ <<api_keys, ret>>' # <<api_keys, ret>>

\* C14: update_key of a credential without a record returns False and changes
\* nothing.  With a record it returns True and changes, in that record only, the
\* fields it was given: scopes, rate_limit, expires_at (now + days * 86400) and
\* metadata; created_at, the fields not given, the other records and the
\* trackers stay as they are.
C14_UpdateFrame ==
    /\ [](\A k \in GeneratedKeys, s \in UpdScopes, l \in RaisedLimit, d \in UpdDays,
             m \in UpdMetadata :
            LET h == _hash_key(k)
                u == update_key(api_keys, now, k, s, l, d, m)
            IN  IF h \notin DOMAIN api_keys
                THEN ~u.res /\ u.keys = api_keys
                ELSE /\ u.res
                     /\ DOMAIN u.keys = DOMAIN api_keys
                     /\ \A x \in DOMAIN api_keys \ {h} : u.keys[x] = api_keys[x]
                     /\ u.keys[h].created_at = api_keys[h].created_at
                     /\ u.keys[h].scopes = IF s = <<>> THEN api_keys[h].scopes ELSE s[1]
                     /\ u.keys[h].rate_limit =
                          IF l = <<>> THEN api_keys[h].rate_limit ELSE l[1]
                     /\ u.keys[h].expires_at =
                          IF d = <<>> THEN api_keys[h].expires_at ELSE now + d[1] * 86400
                     /\ m = <<>> => u.keys[h].metadata = api_keys[h].metadata)
    /\ [][\A k \in GeneratedKeys :
            UpdateStep(k)
            => /\ request_tracker' = request_tracker
               /\ ret'.res.ok <=> _hash_key(k) \in DOMAIN api_keys
               /\ ~ret'.res.ok => api_keys' = api_keys
               /\ \E s \in UpdScopes, l \in RaisedLimit, d \in UpdDays, m \in UpdMetadata :
                     api_keys' = update_key(api_keys, now, k, s, l, d, m).keys]_vars

\* only the rate limit was given, a day after the key was issued for 90 days,
\* and the key's tracker is still what check_rate_limit left
C14_Witness ==
    /\ ret.op = "update_key" /\ ret.api_key = "sk-1" /\ ret.res.ok
    /\ _hash_key("sk-1") \in DOMAIN api_keys
    /\ api_keys[_hash_key("sk-1")] =
         [scopes |-> {"*"}, rate_limit |-> 2, created_at |-> 0,
          expires_at |-> 90 * 86400, metadata |-> EmptyDict]
    /\ now = 3600
    /\ _hash_key("sk-1") \in DOMAIN request_tracker
    /\ request_tracker[_hash_key("sk-1")] = [requests |-> 1, window_start |-> 0]

\* C15: update_key with metadata merges it into the record's metadata: every
\* key given takes the value given, every other key keeps its value, and no
\* key is dropped.  So metadata {a: 1} and then {b: 2} leaves a and b, and a
\* given again as {a: 3} leaves a = 3.
C15_MetadataMerged ==
    /\ [](\A k \in GeneratedKeys, s \in UpdScopes, l \in RaisedLimit, d \in UpdDays,
             m \in UpdMetadata \ {<<>>} :
            _hash_key(k) \in DOMAIN api_keys
            => LET old == api_keys[_hash_key(k)].metadata
                   new == update_key(api_keys, now, k, s, l, d, m).keys[_hash_key(k)].metadata
               IN  /\ DOMAIN new = DOMAIN old \cup DOMAIN m[1]
                   /\ \A x \in DOMAIN m[1] : new[x] = m[1][x]
                   /\ \A x \in DOMAIN old \ DOMAIN m[1] : new[x] = old[x])
    /\ [][\A k \in GeneratedKeys :
            (UpdateStep(k) /\ ret'.res.ok)
            => LET old == api_keys[_hash_key(k)].metadata
                   new == api_keys'[_hash_key(k)].metadata
               IN  /\ DOMAIN old \subseteq DOMAIN new
                   /\ \A x \in DOMAIN old :
                         new[x] = old[x] \/ \E m \in UpdMetadata \ {<<>>} :
                                               x \in DOMAIN m[1] /\ new[x] = m[1][x]]_vars

\* generate_key left the metadata empty, so a and b came by two updates
C15_Witness ==
    /\ ret.op = "update_key" /\ ret.api_key = "sk-1" /\ ret.res.ok
    /\ _hash_key("sk-1") \in DOMAIN api_keys
    /\ api_keys[_hash_key("sk-1")].metadata = [a |-> 3, b |-> 2]

----------------------------------------------------------------------------
\* The manager called with any integers: generate_key and update_key store
\* rate_limit and expires_in_days as they come, without a test of their sign

AnyDays == {DefaultExpiresInDays, 0, -1}

AnyRateLimits == {<<1>>, <<0>>, <<-1>>}

ArgsNext ==
    \/ Tick
    \/ \E k \in GeneratedKeys, l \in AnyRateLimits, d \in AnyDays :
          Fresh(k) /\ Generate(k, <<>>, l, d, <<>>)
    \/ \E k \in GeneratedKeys, l \in AnyRateLimits, d \in AnyDays :
          Update(k, <<>>, l, <<d>>, <<>>)
    \/ \E k \in GeneratedKeys : Validate(k, None)
    \/ \E k \in GeneratedKeys : CheckRateLimit(k)
    \/ \E k \in GeneratedKeys : Revoke(k)

SpecArgs == Init /\ [][ArgsNext]_vars

----------------------------------------------------------------------------
\* A caller of check_rate_limit over three windows, for keys whose rate_limit
\* stays as issued; every admitted call is logged with its time

BurstTimes == {Time(i) : i \in 0..(MaxTicks + 2)}

\* time passes, up to the third window
TickLong ==
    /\ \E t \in BurstTimes : t > now /\ now' = t
    /\ UNCHANGED <<api_keys, request_tracker, exclude_paths, req, ret, thr, admitted, heap>>

AdmittedAt(key_hash, t) ==
    IF <<key_hash, t>> \in DOMAIN admitted THEN admitted[<<key_hash, t>>] ELSE 0

\* check_rate_limit called directly; a call that returns True is logged
CheckRateLimitLogged(api_key) ==
    LET c == check_rate_limit(api_keys, request_tracker, now, api_key)
        key_hash == _hash_key(api_key)
    IN  /\ request_tracker' = c.tracker
        /\ ret' = Call("check_rate_limit", api_key, None, c.res)
        /\ admitted' = IF c.res.ok
                       THEN Put(admitted, <<key_hash, now>>, AdmittedAt(key_hash, now) + 1)
                       ELSE admitted
        /\ UNCHANGED <<api_keys, now, exclude_paths, req, thr, heap>>

BurstNext ==
    \/ TickLong
    \/ \E k \in GeneratedKeys, l \in RateLimits :
          Fresh(k) /\ Generate(k, <<>>, l, DefaultExpiresInDays, <<>>)
    \/ \E k \in GeneratedKeys : CheckRateLimitLogged(k)

SpecBurst == Init /\ [][BurstNext]_vars

\* ... with time that keeps advancing and a caller that keeps calling: the
\* clock's step and each key's call are taken if they stay possible
SpecLive ==
    /\ SpecBurst
    /\ WF_vars(TickLong)
    /\ \A k \in GeneratedKeys : WF_vars(CheckRateLimitLogged(k))

----------------------------------------------------------------------------
\* Claims about a rate-limited key being admitted again (specification SpecLive)

\* the key has a record, and its tracker's window began at w and is used up
Limited(k, w) ==
    /\ _hash_key(k) \in DOMAIN api_keys
    /\ _hash_key(k) \in DOMAIN request_tracker
    /\ api_keys[_hash_key(k)].rate_limit > 0
    /\ request_tracker[_hash_key(k)].window_start = w
    /\ request_tracker[_hash_key(k)].requests >= api_keys[_hash_key(k)].rate_limit

\* check_rate_limit admitted the key in a window that began after w
AdmittedAfter(k, w) ==
    /\ ret.op = "check_rate_limit" /\ ret.api_key = k /\ ret.res.ok
    /\ _hash_key(k) \in DOMAIN request_tracker
    /\ request_tracker[_hash_key(k)].window_start > w + RateLimitWindow
    /\ \E t \in BurstTimes : t > w + RateLimitWindow /\ AdmittedAt(_hash_key(k), t) > 0

\* C37: while time keeps advancing and the key's record stays, with
\* rate_limit > 0, a key that is rate-limited in the window that began at w is
\* eventually admitted again by check_rate_limit, in a window that began
\* more than 3600 s after w, whatever denied calls were made in between (for
\* every w that the clock of the model gets more than one window past).
C37_EventuallyAdmitted ==
    \A k \in GeneratedKeys, w \in BurstTimes :
        (Limited(k, w) /\ \E t \in BurstTimes : t - w > RateLimitWindow)
        ~> AdmittedAfter(k, w)

\* the key used its one request at 0, was denied since, and is admitted one
\* second after that window
C37_Witness ==
    /\ ret.op = "check_rate_limit" /\ ret.api_key = "sk-1" /\ ret.res.ok
    /\ now = 3601
    /\ _hash_key("sk-1") \in DOMAIN api_keys
    /\ api_keys[_hash_key("sk-1")].rate_limit = 1
    /\ AdmittedAt(_hash_key("sk-1"), 0) = 1
    /\ AdmittedAt(_hash_key("sk-1"), 3600) = 0
    /\ AdmittedAt(_hash_key("sk-1"), 3601) = 1
    /\ _hash_key("sk-1") \in DOMAIN request_tracker
    /\ request_tracker[_hash_key("sk-1")] = [requests |-> 1, window_start |-> 3601]

----------------------------------------------------------------------------
\* Claims about bursts at a window's edge (specification SpecBurst)

RECURSIVE AdmittedIn(_, _)
\* the calls admitted for key_hash at the times of T
AdmittedIn(key_hash, T) ==
    IF T = {} THEN 0
    ELSE LET t == CHOOSE x \in T : TRUE
         IN  AdmittedAt(key_hash, t) + AdmittedIn(key_hash, T \ {t})

Span(t1, t2) == {t \in BurstTimes : t1 <= t /\ t <= t2}

----------------------------------------------------------------------------
\* Claims about the arguments of generate_key and update_key (specification
\* SpecArgs)

\* C26: in every reachable state every record's expires_at is later than its
\* created_at, whatever arguments generate_key and update_key were called with.
C26_ExpiresAfterCreated ==
    \A h \in DOMAIN api_keys : api_keys[h].expires_at > api_keys[h].created_at

\* C27: in every reachable state every record's rate_limit is an integer
\* greater than 0, whatever arguments generate_key and update_key were called
\* with.
C27_PositiveRateLimit ==
    \A h \in DOMAIN api_keys : api_keys[h].rate_limit \in Nat \ {0}

----------------------------------------------------------------------------
\* An administrator who keeps one metadata dict and passes it to every
\* generate_key call: the records store the object they were given

SharedKeys == {"sk-1", "sk-2"}
SharedUpdates == {[a |-> 1], [b |-> 2]}

\* generate_key(rate_limit=..., metadata=o), o a dict the caller holds
GenerateShared(api_key, rate_limit, o) ==
    /\ api_keys' = Put(api_keys, _hash_key(api_key),
                       [generated_info(now, <<>>, rate_limit, DefaultExpiresInDays, <<>>)
                          EXCEPT !.metadata = Ref(o)])
    /\ ret' = Call("generate_key", api_key, None, Result(TRUE, None))
    /\ UNCHANGED <<request_tracker, now, exclude_paths, req, thr, admitted, heap>>

\* update_key(api_key, metadata=metadata): key_info["metadata"].update(metadata)
\* changes the dict the record holds, in place
UpdateShared(api_key, metadata) ==
    LET key_hash == _hash_key(api_key) IN
    /\ ret' = Call("update_key", api_key, None, Result(key_hash \in DOMAIN api_keys, None))
    /\ IF key_hash \in DOMAIN api_keys /\ IsRef(api_keys[key_hash].metadata)
       THEN /\ heap' = Put(heap, api_keys[key_hash].metadata.ref,
                           Merge(heap[api_keys[key_hash].metadata.ref], metadata))
            /\ api_keys' = api_keys
       ELSE /\ api_keys' = update_key(api_keys, now, api_key, <<>>, <<>>, <<>>,
                                      <<metadata>>).keys
            /\ heap' = heap
    /\ UNCHANGED <<request_tracker, now, exclude_paths, req, thr, admitted>>

SharedNext ==
    \/ Tick
    \/ \E k \in SharedKeys, o \in MetadataObjects :
          Fresh(k) /\ GenerateShared(k, <<1>>, o)
    \/ \E k \in SharedKeys \cup {DefaultKey}, m \in SharedUpdates : UpdateShared(k, m)
    \/ \E k \in SharedKeys : Validate(k, None)
    \/ \E k \in SharedKeys : CheckRateLimit(k)
    \/ \E k \in SharedKeys : Revoke(k)

SpecShared == Init /\ [][SharedNext]_vars

----------------------------------------------------------------------------
\* Claims about records that were given the same object (specification
\* SpecShared)

\* the record of key_hash as a reader finds it
RecordSeen(keys, objs, key_hash) ==
    [keys[key_hash] EXCEPT !.metadata = metadata_of(keys[key_hash], objs)]

\* C34: validate_key, check_rate_limit, update_key and revoke_key applied to
\* one credential leave the record, its metadata and scopes included, and the
\* tracker of every other credential as they were, also when the caller passed
\* the same metadata or scopes value to several generate_key calls.
C34_Isolated ==
    [][\A k \in SharedKeys \cup {DefaultKey} :
         (/\ ret'.api_key = k
          /\ ret'.op \in {"validate_key", "check_rate_limit", "update_key", "revoke_key"})
         => /\ \A h \in DOMAIN api_keys \ {_hash_key(k)} :
                  /\ h \in DOMAIN api_keys'
                  /\ RecordSeen(api_keys', heap', h) = RecordSeen(api_keys, heap, h)
            /\ \A h \in DOMAIN request_tracker \ {_hash_key(k)} :
                  /\ h \in DOMAIN request_tracker'
                  /\ request_tracker'[h] = request_tracker[h]]_vars

----------------------------------------------------------------------------
\* Claims about the life of records and trackers (specification SpecAll)

\* C25: a tracker comes into being only in a call of check_rate_limit for its
\* credential, made directly or by the Gate for a request that passed
\* validate_key: it is created with requests = 0 and window_start = now, so
\* after that call it counts at most this one request.  Every call of
\* check_rate_limit leaves a tracker for its credential.  generate_key,
\* validate_key, update_key, get_key_info, list_keys and the bootstrap leave
\* the trackers as they are, and a tracker goes away only by revoke_key.
C25_LazyTracker ==
    /\ [][\A h \in DOMAIN request_tracker' \ DOMAIN request_tracker :
            /\ request_tracker'[h].window_start = now
            /\ request_tracker'[h].requests \in {0, 1}
            /\ \E k \in GeneratedKeys :
                  /\ h = _hash_key(k)
                  /\ \/ CheckRateLimit(k)
                     \/ /\ validate_key(api_keys, now, k, None).ok
                        /\ \E r \in Requests : Dispatch(r, "/api/jobs", k)]_vars
    /\ [][\A k \in GeneratedKeys :
            (ret'.op = "check_rate_limit" /\ CheckRateLimit(k))
            => _hash_key(k) \in DOMAIN request_tracker']_vars
    /\ [][(/\ ret' # ret
           /\ ret'.op \in {"generate_key", "validate_key", "update_key", "get_key_info",
                            "list_keys", "_load_default_api_key"})
          => request_tracker' = request_tracker]_vars
    /\ [][\A h \in DOMAIN request_tracker \ DOMAIN request_tracker' :
            \E k \in GeneratedKeys \cup {DefaultKey} : h = _hash_key(k) /\ Revoke(k)]_vars

\* the key was issued in the first window, validated and looked at, and its
\* tracker begins with the first check_rate_limit, an hour later
C25_Witness ==
    /\ ret.op = "check_rate_limit" /\ ret.api_key = "sk-1"
    /\ _hash_key("sk-1") \in DOMAIN api_keys
    /\ api_keys[_hash_key("sk-1")].created_at = 0
    /\ now = 3600
    /\ request_tracker = [h \in {_hash_key("sk-1")} |-> [requests |-> 1, window_start |-> 3600]]

\* C28: a record leaves the store only in a revoke_key of its credential.
\* validate_key, check_rate_limit, generate_key, update_key, get_key_info,
\* list_keys, the bootstrap, a request through the Gate and the passing of
\* time, past the record's expiry too, leave every record in the store.
C28_OnlyRevokeDestroys ==
    /\ [][\A h \in DOMAIN api_keys \ DOMAIN api_keys' :
            \E k \in GeneratedKeys \cup {DefaultKey} : h = _hash_key(k) /\ Revoke(k)]_vars
    /\ [][(ret'.op # "revoke_key" \/ ret' = ret)
          => DOMAIN api_keys \subseteq DOMAIN api_keys']_vars

\* the key expired an hour ago; it was validated and sent through the Gate
\* since, and its record is still there
C28_Witness ==
    /\ ret.op = "validate_key" /\ ret.api_key = "sk-1"
    /\ ret.res = [ok |-> FALSE, msg |-> "API key has expired", raised |-> None]
    /\ \E r \in Requests :
          /\ req[r].pc = "done" /\ req[r].header = "sk-1"
          /\ req[r].response =
               [status_code |-> 401, content |-> RejectionBody("API key has expired")]
    /\ _hash_key("sk-1") \in DOMAIN api_keys
    /\ api_keys[_hash_key("sk-1")].expires_at = 0
    /\ now = 3601

\* C29: update_key with expires_in_days = d sets expires_at to the time of the
\* update plus d days, whatever expires_at was before; so a record that had
\* expired validates again once it was updated with d > 0.
C29_ExpiryRecomputed ==
    /\ [](\A k \in GeneratedKeys, d \in UpdDays \ {<<>>} :
            LET h == _hash_key(k)
                u == update_key(api_keys, now, k, <<>>, <<>>, d, <<>>)
            IN  h \in DOMAIN api_keys
                => /\ u.keys[h].expires_at = now + d[1] * 86400
                   /\ d[1] > 0 => validate_key(u.keys, now, k, None).ok)
    /\ [][\A k \in GeneratedKeys :
            (/\ ret'.op = "update_key" /\ ret'.api_key = k
             /\ _hash_key(k) \in DOMAIN api_keys
             /\ api_keys' # api_keys)
            => /\ api_keys'[_hash_key(k)].expires_at = now + 86400
               /\ validate_key(api_keys', now', k, None).ok]_vars

\* the key was issued at 0 and a request with it was turned away as expired;
\* updated with one day at 3601, it validates again
C29_Witness ==
    /\ ret.op = "validate_key" /\ ret.api_key = "sk-1" /\ ret.res.ok
    /\ \E r \in Requests :
          /\ req[r].pc = "done" /\ req[r].header = "sk-1"
          /\ req[r].response =
               [status_code |-> 401, content |-> RejectionBody("API key has expired")]
    /\ _hash_key("sk-1") \in DOMAIN api_keys
    /\ api_keys[_hash_key("sk-1")].created_at = 0
    /\ api_keys[_hash_key("sk-1")].expires_at = 3601 + 86400
    /\ now = 3601

----------------------------------------------------------------------------
\* Claims about the bootstrap key (specification SpecBootstrap)

\* the record the bootstrap seeds at time t
SeededRecord(t) ==
    [scopes |-> {"*"}, rate_limit |-> 1000, created_at |-> t,
     expires_at |-> t + 365 * 86400,
     metadata |-> [name |-> "Default Development API Key", created_by |-> "system"]]

\* C23: construction seeds exactly one record, for the fallback credential:
\* scopes {"*"}, rate_limit 1000, expires_at one year (365 days) after
\* created_at.  The bootstrap stores that record only when the store has none
\* under the credential's hash: repeated, it leaves an existing record as it is
\* (updated or expired as it may be) and adds no other; after a revoke it seeds
\* the record anew.  It never touches a tracker.
C23_BootstrapOnce ==
    /\ api_keys = [h \in {_hash_key("test-mcp-api-key-local-dev")} |-> SeededRecord(now)]
    /\ [][(ret'.op = "_load_default_api_key" /\ LoadDefault)
          => LET h == _hash_key("test-mcp-api-key-local-dev") IN
             /\ request_tracker' = request_tracker
             /\ DOMAIN api_keys' = DOMAIN api_keys \cup {h}
             /\ \A x \in DOMAIN api_keys : api_keys'[x] = api_keys[x]
             /\ h \notin DOMAIN api_keys => api_keys'[h] = SeededRecord(now)]_vars

\* the bootstrap was repeated a second after an update of the seeded record
C23_Witness ==
    /\ ret.op = "_load_default_api_key"
    /\ now = 3601
    /\ _hash_key(DefaultKey) \in DOMAIN api_keys
    /\ api_keys[_hash_key(DefaultKey)].created_at = 0
    /\ api_keys[_hash_key(DefaultKey)].scopes = {"write"}
    /\ api_keys[_hash_key(DefaultKey)].expires_at = 3600 + 86400

----------------------------------------------------------------------------
\* Claims about get_key_info and list_keys (specification SpecInfo)

\* the raw credentials some record may be stored for
StoredKeys == GeneratedKeys \cup {DefaultKey}

\* the snapshot holds the record's fields, usage and identifier at most, and
\* none of its texts is a raw credential
WithoutRawCredential(info) ==
    /\ DOMAIN info \subseteq {"scopes", "rate_limit", "created_at", "expires_at",
                              "metadata", "usage", "key_id"}
    /\ \A k \in StoredKeys :
          /\ info.created_at # k /\ info.expires_at # k
          /\ k \notin info.scopes
          /\ \A x \in DOMAIN info.metadata : info.metadata[x] # k
          /\ "usage" \in DOMAIN info => info.usage.window_start # k
          /\ "key_id" \in DOMAIN info => info.key_id # k

\* C22: get_key_info and list_keys leave the records and the trackers as they
\* are.  get_key_info returns None for a credential without a record and
\* list_keys returns one snapshot per record and no other.  No snapshot holds
\* a raw credential: list_keys names the key by the first 8 characters of its
\* hash, get_key_info does not name it at all.
C22_ReadOnlyInfo ==
    /\ [][\A k \in RateKeys :
            (ret'.op = "get_key_info" /\ GetKeyInfo(k))
            => /\ api_keys' = api_keys
               /\ request_tracker' = request_tracker
               /\ IF _hash_key(k) \notin DOMAIN api_keys
                  THEN ret'.res.value = <<>>
                  ELSE /\ Len(ret'.res.value) = 1
                       /\ WithoutRawCredential(ret'.res.value[1])
                       /\ "key_id" \notin DOMAIN ret'.res.value[1]
                       /\ ret'.res.value[1].scopes = api_keys[_hash_key(k)].scopes
                       /\ ret'.res.value[1].rate_limit = api_keys[_hash_key(k)].rate_limit]_vars
    /\ [][\A u \in BOOLEAN :
            (ret'.op = "list_keys" /\ ListKeys(u))
            => /\ api_keys' = api_keys
               /\ request_tracker' = request_tracker
               /\ Cardinality(ret'.res.value) = Cardinality(DOMAIN api_keys)
               /\ \A info \in ret'.res.value :
                     /\ WithoutRawCredential(info)
                     /\ Len(info.key_id) = 8
                     /\ \E h \in DOMAIN api_keys :
                           /\ info.key_id = SubSeq(h, 1, 8)
                           /\ info.scopes = api_keys[h].scopes
                           /\ info.rate_limit = api_keys[h].rate_limit]_vars

C22_Witness ==
    /\ ret.op = "list_keys"
    /\ Cardinality(ret.res.value) = 2
    /\ \E info \in ret.res.value :
          /\ info.key_id = "sha256:s"
          /\ "usage" \in DOMAIN info /\ info.usage.requests = 1
    /\ _hash_key("sk-1") \in DOMAIN api_keys
    /\ _hash_key("sk-1") \in DOMAIN request_tracker
    /\ request_tracker[_hash_key("sk-1")].requests = 1

----------------------------------------------------------------------------
\* Claims about readers beside update_key (specification SpecReaders)

\* C24: a reader beside a thread inside update_key sees the record as it was
\* before the update or as it is after it, never one with only some of the
\* update's fields written.  Here every key is issued with scopes {"*"},
\* rate_limit 1 and no metadata, and every update sets scopes {"write"},
\* rate_limit 2 and metadata {a: 1}: a snapshot shows the first three values
\* or the last three.
C24_FullyFormed ==
    (ret.op \in {"list_keys", "get_key_info"})
    => \A info \in (IF ret.op = "list_keys" THEN ret.res.value
                    ELSE {ret.res.value[i] : i \in 1..Len(ret.res.value)}) :
          info.metadata # [name |-> "Default Development API Key", created_by |-> "system"]
          => \/ info.scopes = {"*"} /\ info.rate_limit = 1 /\ info.metadata = <<>>
             \/ info.scopes = {"write"} /\ info.rate_limit = 2
                  /\ info.metadata = [a |-> 1]

----------------------------------------------------------------------------
\* Claims about concurrent calls (specification SpecThreads)

\* C4: under any interleaving of concurrent check_rate_limit calls for one
\* credential, the calls admitted within one window (here: while the clock still
\* shows its first instant) never exceed the record's rate_limit, and no
\* increment is lost: with no call under way, the tracker's requests equal the
\* number of admitted calls.
C4_NoRace ==
    \A k \in GeneratedKeys :
        LET key_hash == _hash_key(k) IN
        (/\ now = Time(0)
         /\ key_hash \in DOMAIN api_keys
         /\ key_hash \in DOMAIN request_tracker)
        => /\ admitted[key_hash] <= api_keys[key_hash].rate_limit
           /\ (\A th \in Threads : thr[th].pc = "idle")
                => request_tracker[key_hash].requests = admitted[key_hash]

====
